---------------------------- MODULE Spec2Model ----------------------------
(***************************************************************************)
(* A model of fastglue: request parameter binding with ScanArgs and        *)
(* setVal (src/utils.go), the nested argument builder, the middleware      *)
(* chain of Fastglue.handler, the parameter-checking wrappers ReqParams    *)
(* and ReqLenRangeParams (src/custom.go), serving with ListenAndServe,     *)
(* ListenServeAndWaitGracefully and Shutdown (src/fastglue.go), the mock   *)
(* server (src/mock.go), ParseAuthHeader and Decode (src/fastglue.go) and  *)
(* DecodeFail (src/custom.go).                                             *)
(*                                                                         *)
(* Texts are TLA+ strings, read character by character with SubSeq.        *)
(* Numbers read from a text have at most nine digits, so the 64 bit range  *)
(* of strconv.ParseInt / ParseUint is never left and the range error of    *)
(* those functions does not arise.  Argument values are written without    *)
(* the letters x, p and the underscore: hexadecimal floats and digit       *)
(* separators are outside the modelled alphabet.                           *)
(***************************************************************************)
EXTENDS Integers, Sequences, FiniteSets, TLC

VARIABLES
    args,      \* the argument multimap: a sequence of <<key, value>> pairs
    obj,       \* the target struct: field name -> value
    old,       \* the target struct as it was when ScanArgs was called
    fieldTag,  \* the annotation namespace ScanArgs was called with
    fields,    \* the key list ScanArgs returned
    err,       \* the error ScanArgs returned (NoError: none)
    pc,        \* "build": the multimap is being filled; "done": ScanArgs returned;
               \* "panicked": ScanArgs panicked;
               \* "idle": no ScanArgs call is modelled (SpecSetVal)
    sv,        \* one field under repeated setVal calls (specification SpecSetVal)
    target,    \* the reflect.Value of the interface value handed to ScanArgs
    mem,       \* the byte arrays and the slices of the []byte fields, once ScanArgs ran
    nodes,     \* the nested builder's node for every pair of the multimap
    tree,      \* the nested builder's merged tree
    routes,    \* Fastglue.Router: the handler registered for each method
    f_before,  \* Fastglue.before: the registered before-middleware
    f_after,   \* Fastglue.after: the registered after-middleware
    gpc,       \* "setup": routes and middleware are registered; "serving"
    trace,     \* what ran for the last request, in the order it ran
    cfg,       \* the fields a parameter-checking wrapper was made with
    req,       \* the request handed to the wrapper: method, query and post arguments
    resp,      \* the response: status code, content type, the envelopes written
    called,    \* how often the wrapped handler was invoked
    ret,       \* what the wrapper returned
    rpc,       \* "build": the request is being filled; "done": the wrapper returned
    call,      \* the arguments of ListenServeAndWaitGracefully
    f_Server,  \* Fastglue.Server: the server ListenAndServe assigned
    srv,       \* the serving server: its listener, handler and connections
    shutdownServer, \* the channel the caller signals on: values queued, closed
    errChan,   \* the buffered error channel of ListenServeAndWaitGracefully
    gor,       \* where the caller and the two goroutines are, and what they hold
    result,    \* what ListenServeAndWaitGracefully returned
    hist,      \* history: signals sent, Shutdown calls completed
    servers,   \* the servers of a Fastglue.Shutdown call, by name
    shutdownComplete, \* what was sent on the channel given to Fastglue.Shutdown
    handles,   \* MockServer.handles: the registered mock responses by key
    mock,      \* the mock server's last request and its response
    dec,       \* a DecodeFail call: the request, the response, what it returned
    auth       \* a ParseAuthHeader call: schemes, header, what it returned

\* The state of the nested builder.
nestVars == <<nodes, tree>>

\* The state of a Fastglue instance and of the request it serves.
glueVars == <<routes, f_before, f_after, gpc, trace>>

\* The state of a parameter-checking wrapper and the request it is called with.
paramVars == <<cfg, req, resp, called, ret, rpc>>

\* The state of the HTTP side of the package.
downVars == <<servers, shutdownComplete>>

srvVars == <<call, f_Server, srv, shutdownServer, errChan, gor, result, hist, downVars>>

moreVars == <<handles, mock, dec, auth>>

httpVars == <<glueVars, paramVars, srvVars, moreVars>>

\* The state beyond ScanArgs and setVal.
beyondScan == <<nestVars, httpVars>>

\* The state of the binding side of the package.
bindVars == <<args, obj, old, fieldTag, fields, err, pc, sv, target, mem, nestVars>>

vars == <<bindVars, httpVars>>

\* No tree was built.
NoTree == [t |-> "none"]

NestIdle ==
    /\ nodes = <<>>
    /\ tree = NoTree

\* No Fastglue instance is modelled.
GlueIdle ==
    /\ routes = <<>>
    /\ f_before = <<>>
    /\ f_after = <<>>
    /\ gpc = "idle"
    /\ trace = <<>>

\* No wrapper is modelled.
ParamIdle ==
    /\ cfg = <<>>
    /\ req = <<>>
    /\ resp = <<>>
    /\ called = 0
    /\ ret = "none"
    /\ rpc = "idle"

\* No Fastglue.Shutdown call is modelled.
DownIdle ==
    /\ servers = <<>>
    /\ shutdownComplete = <<>>

\* No server is modelled.
SrvIdle ==
    /\ call = <<>>
    /\ f_Server = "nil"
    /\ srv = <<>>
    /\ shutdownServer = <<>>
    /\ errChan = <<>>
    /\ gor = <<>>
    /\ result = <<"not returned">>
    /\ hist = <<>>
    /\ DownIdle

\* No mock server, DecodeFail call or ParseAuthHeader call is modelled.
MoreIdle ==
    /\ handles = <<>>
    /\ mock = <<>>
    /\ dec = <<>>
    /\ auth = <<>>

HttpIdle == GlueIdle /\ ParamIdle /\ SrvIdle /\ MoreIdle

\* The components beyond ScanArgs and setVal are not in use.
BeyondScanIdle == NestIdle /\ HttpIdle

\* The nil error.
Nil == "<nil>"

\* The nil error of ScanArgs, whose errors are sequences of message pieces.
NoError == <<>>

\* The nil pointer.
NilPtr == "nil"

(***************************************************************************)
(* reflect.Value, as far as ScanArgs looks at its target: the kind, for a  *)
(* pointer the kind of what it points to ("invalid" for a nil pointer),    *)
(* and whether the fields of a struct can be set (the struct was reached   *)
(* through a pointer).                                                     *)
(***************************************************************************)
Value(kind, elem, settable) == [kind |-> kind, elem |-> elem, settable |-> settable]

\* reflect.ValueOf(nil): the zero Value.
Invalid == Value("invalid", "none", FALSE)

\* reflect.ValueOf(&x) for an x of kind elem; a nil pointer has nothing
\* behind it.
PtrTo(elem) == Value("ptr", elem, FALSE)

\* reflect.ValueOf(x) for an x that is not a pointer.
ValueOf(kind) == Value(kind, "none", FALSE)

\* The outcome of a reflect call that panics.
PanicValue == Value("panic", "none", FALSE)

\* v.Kind()
Kind(v) == v.kind

\* v.Elem(): what a pointer points to, the zero Value for a nil pointer;
\* panics when v is neither a pointer nor an interface.
Elem(v) ==
    IF v.kind = "ptr" THEN Value(v.elem, "none", v.elem # "invalid")
    ELSE IF v.kind = "interface" THEN Invalid
    ELSE PanicValue

\* A dereference that does not look at the kind first.
derefAlways(v) == Elem(v)

\* ob := reflect.ValueOf(obj); if ob.Kind() == reflect.Ptr { ob = ob.Elem() }
deref(v) == IF Kind(v) = "ptr" THEN Elem(v) ELSE v

\* No ScanArgs call is modelled.
NoTarget == Value("none", "none", FALSE)

(***************************************************************************)
(* Texts.                                                                  *)
(***************************************************************************)
Char(s, i) == SubSeq(s, i, i)

Min(S) == CHOOSE x \in S : \A y \in S : x <= y

Digits == {"0", "1", "2", "3", "4", "5", "6", "7", "8", "9"}

DigitVal(c) ==
    CASE c = "0" -> 0 [] c = "1" -> 1 [] c = "2" -> 2 [] c = "3" -> 3
      [] c = "4" -> 4 [] c = "5" -> 5 [] c = "6" -> 6 [] c = "7" -> 7
      [] c = "8" -> 8 [] c = "9" -> 9

IsDigits(s) == Len(s) > 0 /\ \A i \in 1..Len(s) : Char(s, i) \in Digits

\* The number a string of decimal digits denotes ("" denotes 0).
RECURSIVE DecVal(_)
DecVal(s) ==
    IF Len(s) = 0 THEN 0
    ELSE 10 * DecVal(SubSeq(s, 1, Len(s) - 1)) + DigitVal(Char(s, Len(s)))

\* The first position of s holding a character of set, 0 when there is none.
IndexAny(s, set) ==
    LET hits == {i \in 1..Len(s) : Char(s, i) \in set}
    IN  IF hits = {} THEN 0 ELSE Min(hits)

(***************************************************************************)
(* strconv.ParseUint(val, 10, 0): no sign, one or more decimal digits.     *)
(***************************************************************************)
ParseUint(s) ==
    IF IsDigits(s) THEN [ok |-> TRUE, v |-> DecVal(s)]
    ELSE [ok |-> FALSE, v |-> 0]

(***************************************************************************)
(* strconv.ParseInt(val, 10, 0): an optional sign, then as ParseUint.      *)
(***************************************************************************)
\* The value of ParseInt from the sign and ParseUint's result on the rest.
signedInt(neg, un) ==
    IF ~un.ok THEN [ok |-> FALSE, v |-> 0]
    ELSE [ok |-> TRUE, v |-> IF neg THEN 0 - un.v ELSE un.v]

\* Whether a text starts with a sign, and the text after it.
hasSign(s) == Len(s) > 0 /\ Char(s, 1) \in {"+", "-"}

isNeg(s) == Len(s) > 0 /\ Char(s, 1) = "-"

unsigned(s) == IF hasSign(s) THEN SubSeq(s, 2, Len(s)) ELSE s

ParseInt(s) ==
    IF Len(s) = 0 THEN [ok |-> FALSE, v |-> 0]
    ELSE signedInt(isNeg(s), ParseUint(unsigned(s)))

(***************************************************************************)
(* strconv.ParseBool.                                                      *)
(***************************************************************************)
ParseBool(s) ==
    IF s \in {"1", "t", "T", "TRUE", "true", "True"} THEN [ok |-> TRUE, v |-> TRUE]
    ELSE IF s \in {"0", "f", "F", "FALSE", "false", "False"} THEN [ok |-> TRUE, v |-> FALSE]
    ELSE [ok |-> FALSE, v |-> FALSE]

(***************************************************************************)
(* Floating point values: class "num" is the finite decimal                *)
(* (-1)^neg * mant * 10^exp with mant free of trailing zeros (zero is      *)
(* mant = 0, exp = 0, of either sign), class "inf" an infinity of sign     *)
(* neg, class "nan" not-a-number.  A value beyond the largest finite one   *)
(* is an infinity and one below half the smallest positive one is a zero;  *)
(* rounding of the values in between to the nearest binary value is not    *)
(* modelled.                                                               *)
(***************************************************************************)
FNum(neg, mant, exp) == [class |-> "num", neg |-> neg, mant |-> mant, exp |-> exp]

FInf(neg) == [class |-> "inf", neg |-> neg, mant |-> 0, exp |-> 0]

FNaN == [class |-> "nan", neg |-> FALSE, mant |-> 0, exp |-> 0]

FZero == FNum(FALSE, 0, 0)

\* math.IsNaN
IsNaN(v) == v.class = "nan"

\* math.IsInf(v, 0)
IsInf(v) == v.class = "inf"

\* v == 0 in Go: both zeros compare equal.
IsZero(v) == v.class = "num" /\ v.mant = 0

RECURSIVE Normalise(_, _, _)
Normalise(neg, mant, exp) ==
    IF mant = 0 THEN FNum(neg, 0, 0)
    ELSE IF mant % 10 = 0 THEN Normalise(neg, mant \div 10, exp + 1)
    ELSE FNum(neg, mant, exp)

RECURSIVE NumDigits(_)
NumDigits(n) == IF n < 10 THEN 1 ELSE 1 + NumDigits(n \div 10)

\* The decimal order of magnitude of a finite non-zero value.
Magnitude(v) == NumDigits(v.mant) + v.exp - 1

\* The first nine significant digits of a finite non-zero value.
Lead(v) == v.mant * 10 ^ (9 - NumDigits(v.mant))

\* The nine-digit decimals d * 10^m, counted by <<m, d>>, on either side of
\* the bounds of the binary formats: the largest below the value from
\* which rounding gives an infinity (2^1024 - 2^970 = 1.7976931348623158e308
\* and 2^128 - 2^103 = 3.4028235677973366e38), and the largest not above
\* the value up to which rounding gives a zero (2^-1075 =
\* 2.4703282292062327e-324 and 2^-150 = 7.006492321624085e-46).
LargestFinite(bits) == IF bits = 32 THEN <<38, 340282356>> ELSE <<308, 179769313>>

LargestZero(bits) == IF bits = 32 THEN <<0 - 46, 700649232>> ELSE <<0 - 324, 247032822>>

\* |v| is above the nine-digit decimal b.
Above(v, b) == Magnitude(v) > b[1] \/ (Magnitude(v) = b[1] /\ Lead(v) > b[2])

\* The value of the given width nearest to the finite decimal v, as far as
\* overflow and underflow go.
Rounded(v, bits) ==
    IF v.mant = 0 THEN v
    ELSE IF Above(v, LargestFinite(bits)) THEN FInf(v.neg)
    ELSE IF ~Above(v, LargestZero(bits)) THEN FNum(v.neg, 0, 0)
    ELSE v

Lower(c) ==
    CASE c = "I" -> "i" [] c = "N" -> "n" [] c = "F" -> "f" [] c = "T" -> "t"
      [] c = "Y" -> "y" [] c = "A" -> "a" [] c = "E" -> "e" [] OTHER -> c

commonPrefixLenIgnoreCase(s, prefix) ==
    LET n    == IF Len(prefix) > Len(s) THEN Len(s) ELSE Len(prefix)
        mism == {i \in 1..n : Lower(Char(s, i)) # Char(prefix, i)}
    IN  IF mism = {} THEN n ELSE Min(mism) - 1

\* The part of "infinity" a match of n0 characters consumes: "inf" or all.
infLen(n0) == IF 3 < n0 /\ n0 < 8 THEN 3 ELSE n0

\* strconv's special: "nan", and "inf" or "infinity" with an optional sign,
\* in any casing.  n is the number of characters consumed.
specialInf(s, n) ==
    IF n = 3 \/ n = 8
    THEN [ok |-> TRUE, v |-> FInf(isNeg(s)), n |-> n + Len(s) - Len(unsigned(s))]
    ELSE [ok |-> FALSE, v |-> FZero, n |-> 0]

special(s) ==
    IF Len(s) = 0 THEN [ok |-> FALSE, v |-> FZero, n |-> 0]
    ELSE IF Char(s, 1) \in {"+", "-", "i", "I"}
    THEN specialInf(s, infLen(commonPrefixLenIgnoreCase(unsigned(s), "infinity")))
    ELSE IF Char(s, 1) \in {"n", "N"} /\ commonPrefixLenIgnoreCase(s, "nan") = 3
    THEN [ok |-> TRUE, v |-> FNaN, n |-> 3]
    ELSE [ok |-> FALSE, v |-> FZero, n |-> 0]

\* The text before the first character of set (all of it when there is none),
\* and the text after that character.
before(s, pos) == IF pos = 0 THEN s ELSE SubSeq(s, 1, pos - 1)

after(s, pos) == IF pos = 0 THEN "" ELSE SubSeq(s, pos + 1, Len(s))

\* readFloat's result from the sign, the digits before and after the point,
\* whether an exponent follows, and the exponent's sign and digits.
decimalOf(neg, ipart, fpart, hasExp, eneg, edig) ==
    IF ~IsDigits(ipart \o fpart) THEN [ok |-> FALSE, neg |-> FALSE, mant |-> 0, exp |-> 0]
    ELSE IF hasExp /\ ~IsDigits(edig) THEN [ok |-> FALSE, neg |-> FALSE, mant |-> 0, exp |-> 0]
    ELSE [ok |-> TRUE, neg |-> neg, mant |-> DecVal(ipart \o fpart),
          exp |-> (IF ~hasExp THEN 0 ELSE IF eneg THEN 0 - DecVal(edig) ELSE DecVal(edig))
                  - Len(fpart)]

readMantExp(neg, mpart, dot, hasExp, epart) ==
    decimalOf(neg, before(mpart, dot), after(mpart, dot), hasExp, isNeg(epart), unsigned(epart))

readBody(neg, body, ePos) ==
    readMantExp(neg, before(body, ePos), IndexAny(before(body, ePos), {"."}),
                ePos # 0, after(body, ePos))

\* strconv's readFloat on decimal text: [sign] digits [. digits] [e [sign] digits]
\* with at least one mantissa digit, the whole text consumed.
readFloat(s) == readBody(isNeg(s), unsigned(s), IndexAny(unsigned(s), {"e", "E"}))

\* The value of a well-formed decimal: beyond the 64 bit range it is an
\* infinity and comes with a range error; below it, it is a zero.
rangeChecked(v) ==
    IF IsInf(Rounded(v, 64)) THEN [ok |-> FALSE, v |-> Rounded(v, 64)]
    ELSE [ok |-> TRUE, v |-> Rounded(v, 64)]

parseFloatOf(s, sp, rf) ==
    IF sp.ok THEN
        IF sp.n = Len(s) THEN [ok |-> TRUE, v |-> sp.v]
        ELSE [ok |-> FALSE, v |-> FZero]
    ELSE IF ~rf.ok THEN [ok |-> FALSE, v |-> FZero]
    ELSE rangeChecked(Normalise(rf.neg, rf.mant, rf.exp))

(***************************************************************************)
(* strconv.ParseFloat(val, 0): the 64 bit value the text denotes.  An      *)
(* error comes with malformed text and with a magnitude beyond the 64 bit  *)
(* range (the value is then an infinity).                                  *)
(***************************************************************************)
ParseFloat(s) == parseFloatOf(s, special(s), readFloat(s))

(***************************************************************************)
(* Field kinds (reflect.Kind).                                             *)
(***************************************************************************)
IntKinds == {"int", "int8", "int16", "int32", "int64"}

UintKinds == {"uint", "uint8", "uint16", "uint32", "uint64"}

FloatKinds == {"float32", "float64"}

\* Kinds setVal has no case for.
OtherKinds == {"ptr", "struct", "map"}

ScalarKinds == IntKinds \cup UintKinds \cup FloatKinds \cup {"string", "bool"} \cup OtherKinds

\* The width in bits of a numeric kind; int and uint are 64 bits wide.
Bits(kind) ==
    CASE kind \in {"int8", "uint8"} -> 8
      [] kind \in {"int16", "uint16"} -> 16
      [] kind \in {"int32", "uint32", "float32"} -> 32
      [] OTHER -> 64

\* The zero value of a kind.
Zero(kind) ==
    CASE kind \in IntKinds \cup UintKinds -> 0
      [] kind \in FloatKinds -> FZero
      [] kind = "string" -> ""
      [] kind = "bool" -> FALSE
      [] OTHER -> NilPtr

\* reflect.Value.SetInt: the value is converted to the field's width, and
\* the conversion keeps the low bits (no overflow check).
SetInt(kind, v) ==
    IF Bits(kind) >= 32 THEN v
    ELSE LET m == 2 ^ Bits(kind)
         IN  ((v + m \div 2) % m) - m \div 2

\* reflect.Value.SetUint: as SetInt, unsigned.
SetUint(kind, v) ==
    IF Bits(kind) >= 32 THEN v ELSE v % (2 ^ Bits(kind))

\* reflect.Value.SetFloat: a float32 field takes float32(v), an infinity
\* when the magnitude is beyond the 32 bit range and a zero when it is
\* below it.
SetFloat(kind, v) ==
    IF kind = "float32" /\ v.class = "num" THEN Rounded(v, 32) ELSE v

\* A test that trusts the parser's error alone.
floatRejectedOnErrorOnly(p) == ~p.ok

\* The float case's test on the parsed value: an error, a NaN or an infinity
\* is rejected.
floatRejected(p) == ~p.ok \/ IsNaN(p.v) \/ IsInf(p.v)

\* setVal's results: an error leaves the field as it is.
svFail(cur, msg) == [f |-> cur, scanned |-> FALSE, err |-> msg]

svSet(v) == [f |-> v, scanned |-> TRUE, err |-> Nil]

setIntVal(kind, cur, p) ==
    IF ~p.ok THEN svFail(cur, "expected int") ELSE svSet(SetInt(kind, p.v))

setUintVal(kind, cur, p) ==
    IF ~p.ok THEN svFail(cur, "expected unsigned int") ELSE svSet(SetUint(kind, p.v))

setFloatVal(kind, cur, p) ==
    IF floatRejected(p) THEN svFail(cur, "expected decimal") ELSE svSet(SetFloat(kind, p.v))

setBoolVal(cur, p) ==
    IF ~p.ok THEN svFail(cur, "expected boolean") ELSE svSet(p.v)

(***************************************************************************)
(* setVal(f, val): f is a field of the given kind holding cur.  The        *)
(* result is the field's value after the call, whether a value was set     *)
(* (scanned) and the error.                                                *)
(***************************************************************************)
setVal(kind, cur, val) ==
    CASE kind \in IntKinds -> setIntVal(kind, cur, ParseInt(val))
      [] kind \in UintKinds -> setUintVal(kind, cur, ParseUint(val))
      [] kind \in FloatKinds -> setFloatVal(kind, cur, ParseFloat(val))
      [] kind = "string" -> svSet(val)
      [] kind = "bool" -> setBoolVal(cur, ParseBool(val))
      [] OTHER -> [f |-> cur, scanned |-> FALSE, err |-> Nil]

(***************************************************************************)
(* Specification SpecSetVal: one field of some kind, zero at first, under  *)
(* any number of setVal calls with texts of SetValTexts.                   *)
(***************************************************************************)
SetValTexts ==
    {"", "0", "1", "123", "-1", "+5", "255", "300", "-129", "70000", "007",
     "abc", "12a", "-", "1 ",
     "0.0", "-0", "1.5", "-1.2", ".5", "5.", ".", "1e3", "1e", "e5", "1e39", "1e999",
     "-1e999", "1.2.3", "2e308", "1.8e308", "-2e308", "1.7e308", "1e-400", "-1e-400",
     "3e-324", "4e38", "3.5e38", "-4e38", "3.4e38", "1e-46", "1e-45",
     "NaN", "nan", "NAN", "+nan", "Inf", "inf", "-inf", "Infinity", "INFINITY",
     "+INF", "-INF", "Infin", "Infinityx",
     "true", "false", "t", "f", "T", "F", "TRUE", "FALSE", "True", "yes"}

SvIdle ==
    [kind |-> "none", called |-> FALSE, val |-> "", old |-> NilPtr, f |-> NilPtr,
     scanned |-> FALSE, err |-> Nil]

InitSetVal ==
    /\ \E k \in ScalarKinds :
         sv = [kind |-> k, called |-> FALSE, val |-> "", old |-> Zero(k),
               f |-> Zero(k), scanned |-> FALSE, err |-> Nil]
    /\ args = <<>>
    /\ obj = <<>>
    /\ old = <<>>
    /\ fieldTag = ""
    /\ fields = <<>>
    /\ err = NoError
    /\ pc = "idle"
    /\ target = NoTarget
    /\ mem = {}
    /\ BeyondScanIdle

\* The field after setVal(f, val) returned r.
svAfter(val, r) ==
    [kind |-> sv.kind, called |-> TRUE, val |-> val, old |-> sv.f,
     f |-> r.f, scanned |-> r.scanned, err |-> r.err]

SetValCall(val) ==
    /\ sv' = svAfter(val, setVal(sv.kind, sv.f, val))
    /\ UNCHANGED <<args, obj, old, fieldTag, fields, err, pc, target, mem, beyondScan>>

NextSetVal == \E val \in SetValTexts : SetValCall(val)

SpecSetVal == InitSetVal /\ [][NextSetVal]_vars

(***************************************************************************)
(* fasthttp.Args: an ordered list of (key, value) pairs.                   *)
(***************************************************************************)
\* A lookup that finds every key.
HasAlways(a, key) == TRUE

\* args.Has(key)
Has(a, key) == \E i \in 1..Len(a) : a[i][1] = key

\* args.PeekMulti(key): every value under key, in the order of insertion.
RECURSIVE PeekMulti(_, _)
PeekMulti(a, key) ==
    IF a = <<>> THEN <<>>
    ELSE IF Head(a)[1] = key THEN <<Head(a)[2]>> \o PeekMulti(Tail(a), key)
    ELSE PeekMulti(Tail(a), key)

\* A lookup that returns the last value under key.
PeekLast(a, key) ==
    LET hits == {i \in 1..Len(a) : a[i][1] = key}
    IN  IF hits = {} THEN "" ELSE a[CHOOSE i \in hits : \A j \in hits : j <= i][2]

\* args.Peek(key): the first value under key, empty when there is none.
Peek(a, key) ==
    LET hits == {i \in 1..Len(a) : a[i][1] = key}
    IN  IF hits = {} THEN "" ELSE a[Min(hits)][2]

(***************************************************************************)
(* The target type: the struct of TestScanArgs, cut to one field per case  *)
(* of ScanArgs.  A field has a name, a kind (elem: the element kind of a   *)
(* slice), is exported or not, and carries a tag per annotation namespace  *)
(* ("" when the namespace has none).                                       *)
(***************************************************************************)
Namespaces == {"url", "form"}

Field(name, kind, elem, exported, url, form) ==
    [name |-> name, kind |-> kind, elem |-> elem, exported |-> exported,
     tags |-> [url |-> url, form |-> form]]

Fields ==
    << Field("Str1",      "string",  "",       TRUE,  "str1",  ""),
       Field("StrBlock",  "string",  "",       TRUE,  "-",     ""),
       Field("StrNoTag",  "ptr",     "",       TRUE,  "",      ""),
       Field("priv",      "string",  "",       FALSE, "str1",  ""),
       Field("Bytes",     "slice",   "uint8",  TRUE,  "bytes", ""),
       Field("Int1",      "int",     "",       TRUE,  "int1",  ""),
       Field("Ints",      "slice",   "int",    TRUE,  "int",   ""),
       Field("Ptr",       "ptr",     "",       TRUE,  "ptr",   ""),
       Field("Ptrs",      "slice",   "ptr",    TRUE,  "ptrs",  ""),
       Field("OtherTag",  "string",  "",       TRUE,  "",      "otherval"),
       Field("OmitEmpty", "string",  "",       TRUE,  "",      "otherval,omitempty"),
       Field("NaN",       "float64", "",       TRUE,  "nan",   "") >>

FieldNames == {Fields[i].name : i \in 1..Len(Fields)}

\* The index of a field in declaration order.
FieldIndex(name) == CHOOSE i \in 1..Len(Fields) : Fields[i].name = name

\* The zero value of a field: a nil slice is the empty sequence, nil bytes
\* the empty text.
ZeroField(fd) ==
    IF fd.kind = "slice" THEN (IF fd.elem = "uint8" THEN "" ELSE <<>>)
    ELSE Zero(fd.kind)

\* var o test
ZeroObj == [n \in FieldNames |-> ZeroField(Fields[FieldIndex(n)])]

\* A target every field of which holds a value from earlier use.
PopObj ==
    [n \in FieldNames |->
        CASE n = "Str1" -> "old"
          [] n = "StrBlock" -> "keep"
          [] n = "StrNoTag" -> "&s"
          [] n = "priv" -> "hid"
          [] n = "Bytes" -> "xyz"
          [] n = "Int1" -> 7
          [] n = "Ints" -> <<1, 2, 3>>
          [] n = "Ptr" -> "&s"
          [] n = "Ptrs" -> <<"&s">>
          [] n = "OtherTag" -> "other"
          [] n = "OmitEmpty" -> "omit"
          [] n = "NaN" -> FNum(FALSE, 5, -1)]

(***************************************************************************)
(* ScanArgs.                                                               *)
(***************************************************************************)
\* A test that knows the missing annotation only, not the ignore sentinel.
skipTagEmptyOnly(tag) == tag = ""

\* tag == "" || tag == "-": the field takes no part in the binding.
skipTag(tag) == tag = "" \/ tag = "-"

\* strings.Split(tag, ",")[0]
tagKey(tag) ==
    LET c == IndexAny(tag, {","})
    IN  IF c = 0 THEN tag ELSE SubSeq(tag, 1, c - 1)

\* fmt.Errorf("failed to decode <key>, got: <v> (<reason>)") with key and v
\* each printed between backquotes: the message, as its pieces in order
\* (a TLA+ string cannot hold a backquote; pieces 2 and 4 are the quoted ones).
decodeErr(key, v, reason) ==
    <<"failed to decode ", key, ", got: ", v, " (" \o reason \o ")">>

\* reflect.MakeSlice(f.Type(), numVals, numVals): numVals zero elements.
MakeSlice(elem, numVals) == [i \in 1..numVals |-> Zero(elem)]

\* Bytes taken from the last value under the key.
bytesValLast(a, key) == PeekMulti(a, key)[Len(PeekMulti(a, key))]

\* The []byte case: a copy of args.Peek(tag).
bytesVal(a, key) == Peek(a, key)

\* An assignment that appends to what the field holds.
setSliceAppends(cur, sl) == cur \o sl

\* f.Set(sl): the field takes the new slice.
setSlice(cur, sl) == sl

\* The loop over the values of a slice field, from position i on: each
\* value is set into its element of sl, and the first error ends the loop
\* (bad is the value that failed).  fillStep is the loop's body once setVal
\* returned r.
RECURSIVE fillSlice(_, _, _, _, _)
RECURSIVE fillStep(_, _, _, _, _)
fillSlice(elem, vals, i, sl, scanned) ==
    IF i > Len(vals) THEN [sl |-> sl, scanned |-> scanned, err |-> Nil, bad |-> ""]
    ELSE fillStep(elem, vals, i, sl, setVal(elem, sl[i], vals[i]))

\* A loop that goes on after an error and reports the last value that fails.
fillStepReportsLast(elem, vals, i, sl, r) ==
    IF r.err # Nil
    THEN IF fillSlice(elem, vals, i + 1, sl, FALSE).err # Nil
         THEN fillSlice(elem, vals, i + 1, sl, FALSE)
         ELSE [sl |-> sl, scanned |-> r.scanned, err |-> r.err, bad |-> vals[i]]
    ELSE fillSlice(elem, vals, i + 1, [sl EXCEPT ![i] = r.f], r.scanned)

fillStep(elem, vals, i, sl, r) ==
    IF r.err # Nil
    THEN [sl |-> sl, scanned |-> r.scanned, err |-> r.err, bad |-> vals[i]]
    ELSE fillSlice(elem, vals, i + 1, [sl EXCEPT ![i] = r.f], r.scanned)

\* A slice field that takes the partially filled slice when the loop fails.
sliceResultAssignsPartial(fd, ob, key, r) ==
    [obj |-> [ob EXCEPT ![fd.name] = setSlice(ob[fd.name], r.sl)],
     keys |-> IF r.scanned /\ r.err = Nil THEN <<key>> ELSE <<>>,
     err |-> IF r.err # Nil THEN decodeErr(key, r.bad, r.err) ELSE NoError]

\* A slice field after the loop over its values returned r: an error
\* returns, otherwise f.Set(sl).
sliceResult(fd, ob, key, r) ==
    IF r.err # Nil
    THEN [obj |-> ob, keys |-> <<>>, err |-> decodeErr(key, r.bad, r.err)]
    ELSE [obj |-> [ob EXCEPT ![fd.name] = setSlice(ob[fd.name], r.sl)],
          keys |-> IF r.scanned THEN <<key>> ELSE <<>>, err |-> NoError]

\* A scalar field after setVal(f, v) returned r.
scalarResult(fd, ob, key, v, r) ==
    IF r.err # Nil
    THEN [obj |-> ob, keys |-> <<>>, err |-> decodeErr(key, v, r.err)]
    ELSE [obj |-> [ob EXCEPT ![fd.name] = r.f],
          keys |-> IF r.scanned THEN <<key>> ELSE <<>>, err |-> NoError]

\* A tagged field whose key the multimap has: the []byte case, the slice
\* case over vals, the scalar case.
bindField(fd, a, ob, key, vals) ==
    IF fd.kind = "slice" THEN
        IF fd.elem = "uint8"
        THEN [obj |-> [ob EXCEPT ![fd.name] = bytesVal(a, key)],
              keys |-> <<>>, err |-> NoError]
        ELSE sliceResult(fd, ob, key,
                         fillSlice(fd.elem, vals, 1, MakeSlice(fd.elem, Len(vals)), FALSE))
    ELSE scalarResult(fd, ob, key, Peek(a, key), setVal(fd.kind, ob[fd.name], Peek(a, key)))

\* The body of the loop over the fields, for field fd: the target after it,
\* the keys it appends to the returned list and the error it returns with.
scanField(fd, a, ob, tag) ==
    IF ~fd.exported THEN [obj |-> ob, keys |-> <<>>, err |-> NoError]
    ELSE IF skipTag(fd.tags[tag]) THEN [obj |-> ob, keys |-> <<>>, err |-> NoError]
    ELSE IF ~Has(a, tagKey(fd.tags[tag])) THEN [obj |-> ob, keys |-> <<>>, err |-> NoError]
    ELSE bindField(fd, a, ob, tagKey(fd.tags[tag]), PeekMulti(a, tagKey(fd.tags[tag])))

\* The loop over the fields from field i on, in declaration order: an error
\* returns at once, with a nil key list.  scanNext is the loop once the
\* body returned r for field i.
RECURSIVE scanFrom(_, _, _, _, _)
RECURSIVE scanNext(_, _, _, _, _)
scanFrom(i, a, ob, tag, flds) ==
    IF i > Len(Fields) THEN [obj |-> ob, fields |-> flds, err |-> NoError]
    ELSE scanNext(i, a, tag, flds, scanField(Fields[i], a, ob, tag))

\* A loop that records the error and goes on to the later fields.
scanNextGoesOn(i, a, tag, flds, r) ==
    IF r.err # NoError
    THEN [scanFrom(i + 1, a, r.obj, tag, <<>>) EXCEPT !.fields = <<>>, !.err = r.err]
    ELSE scanFrom(i + 1, a, r.obj, tag, flds \o r.keys)

scanNext(i, a, tag, flds, r) ==
    IF r.err # NoError THEN [obj |-> r.obj, fields |-> <<>>, err |-> r.err]
    ELSE scanFrom(i + 1, a, r.obj, tag, flds \o r.keys)

(***************************************************************************)
(* Memory.  The bytes of the multimap and of the []byte fields live in     *)
(* arrays; a slice shows the first len bytes of its array.  Array k of     *)
(* 1..MaxArgs is the buffer of the value of the multimap's pair k, which   *)
(* the multimap keeps and writes again when the pair is set or, after a    *)
(* Reset, added anew.  Texts are converted with string(v), which copies.   *)
(***************************************************************************)
\* The most pairs a multimap holds.
MaxArgs == 3

Slice(addr, len) == [addr |-> addr, len |-> len]

\* A nil slice.
NilSlice == Slice(0, 0)

\* The bytes a slice shows.
bytesOf(heap, sl) == IF sl.addr = 0 THEN "" ELSE SubSeq(heap[sl.addr], 1, sl.len)

\* The fields of type []byte.
BytesFields ==
    {Fields[i].name : i \in {k \in 1..Len(Fields) :
                               Fields[k].kind = "slice" /\ Fields[k].elem = "uint8"}}

\* n zero bytes, a zero byte written as a dot.
RECURSIVE Zeros(_)
Zeros(n) == IF n = 0 THEN "" ELSE "." \o Zeros(n - 1)

\* The memory when ScanArgs is called with the multimap a on a struct
\* holding ob: the buffers of the pairs, and behind them one array for
\* each []byte field that is not nil.
memOf(a, ob) ==
    [heap |-> [k \in 1..(MaxArgs + 2 * Len(Fields)) |->
                 IF k <= Len(a) THEN a[k][2]
                 ELSE IF k > MaxArgs /\ k <= MaxArgs + Len(Fields)
                         /\ Fields[k - MaxArgs].name \in BytesFields
                 THEN ob[Fields[k - MaxArgs].name]
                 ELSE ""],
     used |-> (1..MaxArgs) \cup {MaxArgs + FieldIndex(n) : n \in {f \in BytesFields : ob[f] # ""}},
     ref |-> [n \in BytesFields |->
                 IF ob[n] = "" THEN NilSlice ELSE Slice(MaxArgs + FieldIndex(n), Len(ob[n]))]]

\* br := args.Peek(tag): the value of the first pair under the key, in the
\* multimap's own buffer; nil when there is no such pair.
peekSlice(a, key) ==
    IF \A n \in 1..Len(a) : a[n][1] # key THEN NilSlice
    ELSE Slice(Min({n \in 1..Len(a) : a[n][1] = key}),
               Len(a[Min({n \in 1..Len(a) : a[n][1] = key})][2]))

\* make([]byte, n): an array no slice refers to, of n zero bytes; m is the
\* memory and b the slice.
make(m, n) ==
    LET k == Min({j \in DOMAIN m.heap : j \notin m.used})
    IN  [m |-> [m EXCEPT !.heap[k] = Zeros(n), !.used = @ \cup {k}], b |-> Slice(k, n)]

\* copy(dst, src)
copy(m, dst, src) ==
    LET n == Min({dst.len, src.len})
    IN  IF n = 0 THEN m
        ELSE [m EXCEPT !.heap[dst.addr] =
                SubSeq(m.heap[src.addr], 1, n) \o SubSeq(@, n + 1, Len(@))]

\* f.SetBytes(b): the field shows the array of b.
SetBytes(m, name, b) == [m EXCEPT !.ref[name] = b]

\* The []byte case without its copy: the field is given the slice of Peek.
bytesMemShared(fd, m, br) == SetBytes(m, fd.name, br)

\* b := make([]byte, len(br)); copy(b, br); f.SetBytes(b)
bytesMem(fd, m, br) ==
    SetBytes(copy(make(m, br.len).m, make(m, br.len).b, br), fd.name, make(m, br.len).b)

\* The memory once the loop over the fields, from field i on, has run on
\* the memory m: the []byte case the loop reaches writes it, and the loop
\* ends at the first error.
RECURSIVE memFrom(_, _, _, _)
memFrom(i, a, tag, m) ==
    IF i > Len(Fields) THEN m
    ELSE IF scanField(Fields[i], a, ZeroObj, tag).err # NoError THEN m
    ELSE IF /\ Fields[i].exported
            /\ ~skipTag(Fields[i].tags[tag])
            /\ Has(a, tagKey(Fields[i].tags[tag]))
            /\ Fields[i].name \in BytesFields
    THEN memFrom(i + 1, a, tag,
                 bytesMem(Fields[i], m, peekSlice(a, tagKey(Fields[i].tags[tag]))))
    ELSE memFrom(i + 1, a, tag, m)

\* A struct as its fields show it: a []byte field shows the bytes of its
\* slice.
seen(ob, m) ==
    [n \in DOMAIN ob |-> IF n \in BytesFields THEN bytesOf(m.heap, m.ref[n]) ELSE ob[n]]

\* The error for a target that is not a struct; %T of a reflect.Value.
nonStructErr ==
    <<"failed to decode form values to struct, received non struct type: ", "reflect.Value">>

\* A panic, in the place of the returned error.
Panic == <<"panic">>

\* ScanArgs once obj was dereferenced to v, for a target holding ob.  The
\* fields of a struct that was handed over by value cannot be set: the
\* loop passes every one of them by.
scanValue(v, a, ob, tag) ==
    IF Kind(v) = "panic" THEN [obj |-> ob, fields |-> <<>>, err |-> Panic]
    ELSE IF Kind(v) # "struct" THEN [obj |-> ob, fields |-> <<>>, err |-> nonStructErr]
    ELSE IF ~v.settable THEN [obj |-> ob, fields |-> <<>>, err |-> NoError]
    ELSE scanFrom(1, a, ob, tag, <<>>)

\* ScanArgs(args, obj, fieldTag), for an obj whose reflect.Value is t and
\* whose content is ob.
ScanArgs(a, t, ob, tag) == scanValue(deref(t), a, ob, tag)

(***************************************************************************)
(* Specification SpecScan: a multimap is filled with Add, then ScanArgs    *)
(* is called once on a target that is zero or holds earlier values.        *)
(***************************************************************************)
ArgKeys == {"", "str1", "-", "bytes", "int1", "int", "ptr", "ptrs", "otherval", "nan"}

\* The values a request submits under a key.
ArgValues(key) ==
    CASE key = "bytes" -> {"abc", "123"}
      [] key = "int1" -> {"123", "abc"}
      [] key = "int" -> {"123", "-1", "abc", "def"}
      [] key = "nan" -> {"-1.2", "NaN"}
      [] OTHER -> {"abc"}

InitScan ==
    /\ args = <<>>
    /\ obj \in {ZeroObj, PopObj}
    /\ old = obj
    /\ fieldTag = ""
    /\ fields = <<>>
    /\ err = NoError
    /\ pc = "build"
    /\ sv = SvIdle
    /\ target = PtrTo("struct")
    /\ mem = {}
    /\ BeyondScanIdle

\* args.Add(key, value)
Add(key, value) ==
    /\ pc = "build"
    /\ Len(args) < MaxArgs
    /\ args' = Append(args, <<key, value>>)
    /\ UNCHANGED <<obj, old, fieldTag, fields, err, pc, sv, target, mem, beyondScan>>

\* ScanArgs returned r: the target, the key list and the error after the call.
Returned(r) ==
    /\ obj' = r.obj
    /\ fields' = r.fields
    /\ err' = r.err
    /\ pc' = IF r.err = Panic THEN "panicked" ELSE "done"

\* fields, err = ScanArgs(args, &obj, tag)
Scan(tag) ==
    /\ pc = "build"
    /\ Returned(ScanArgs(args, target, obj, tag))
    /\ old' = obj
    /\ fieldTag' = tag
    /\ mem' = IF Kind(deref(target)) = "struct" /\ deref(target).settable
              THEN memFrom(1, args, tag, memOf(args, obj)) ELSE mem
    /\ UNCHANGED <<args, sv, target, beyondScan>>

NextScan ==
    \/ \E key \in ArgKeys : \E value \in ArgValues(key) : Add(key, value)
    \/ \E tag \in Namespaces : Scan(tag)

SpecScan == InitScan /\ [][NextScan]_vars

(***************************************************************************)
(* Specification SpecReuse: SpecScan, with the multimap put to further use *)
(* once ScanArgs returned.  The multimap writes a value into the buffer    *)
(* of its pair; a field whose slice shows that buffer shows what is        *)
(* written.                                                                *)
(***************************************************************************)
\* The keys and the value the multimap is rewritten with; the value is no
\* longer than a value a request submits, so that it fits the buffer of one.
ReuseKeys == {"bytes", "str1"}

ReuseValue == "zz"

\* The pair a key is set in: its first pair, or one behind the last.
setAt(a, key) ==
    IF Has(a, key) THEN Min({m \in 1..Len(a) : a[m][1] = key}) ELSE Len(a) + 1

\* a key's first pair takes the value, or the pair is appended.
SetArg(a, key, value) ==
    IF Has(a, key)
    THEN [n \in 1..Len(a) |-> IF n = setAt(a, key) THEN <<key, value>> ELSE a[n]]
    ELSE Append(a, <<key, value>>)

\* kv.value = append(kv.value[:0], value...): the value is written over
\* the buffer of pair k.
appendValue(m, k, value) ==
    [m EXCEPT !.heap[k] = value \o SubSeq(@, Len(value) + 1, Len(@))]

\* args.Set(key, value) after the call.
Set(key, value) ==
    /\ pc \in {"done", "reused"}
    /\ Has(args, key) \/ Len(args) < MaxArgs
    /\ args' = SetArg(args, key, value)
    /\ mem' = appendValue(mem, setAt(args, key), value)
    /\ obj' = seen(obj, mem')
    /\ pc' = "reused"
    /\ UNCHANGED <<old, fieldTag, fields, err, sv, target, beyondScan>>

\* args.Reset() after the call: the pairs are gone, the buffers are kept.
Reset ==
    /\ pc \in {"done", "reused"}
    /\ args # <<>>
    /\ args' = <<>>
    /\ pc' = "reused"
    /\ UNCHANGED <<obj, old, fieldTag, fields, err, sv, target, mem, beyondScan>>

NextReuse ==
    \/ NextScan
    \/ \E key \in ReuseKeys : Set(key, ReuseValue)
    \/ Reset

SpecReuse == InitScan /\ [][NextReuse]_vars

(***************************************************************************)
(* Specification SpecTarget: ScanArgs is called once on a target of any    *)
(* shape: nil, a pointer (to a struct, to nothing, to a pointer, to a      *)
(* scalar), a struct by value, a value of another kind.                    *)
(***************************************************************************)
\* The most pairs a multimap holds in SpecTarget.
MaxTargetArgs == 2

Targets ==
    {Invalid, PtrTo("struct"), PtrTo("invalid"), PtrTo("ptr"), PtrTo("int"),
     PtrTo("interface"), PtrTo("map"), ValueOf("struct"), ValueOf("int"),
     ValueOf("string"), ValueOf("map"), ValueOf("slice"), ValueOf("func")}

\* What a target holds, or what is behind it.
TargetContents(t) ==
    IF t.kind = "struct" \/ t.elem \in {"struct", "ptr"} THEN {ZeroObj, PopObj}
    ELSE IF t.kind = "int" \/ t.elem = "int" THEN {7}
    ELSE IF t.kind = "string" THEN {"old"}
    ELSE {NilPtr}

InitTarget ==
    /\ args = <<>>
    /\ target \in Targets
    /\ mem = {}
    /\ obj \in TargetContents(target)
    /\ old = obj
    /\ fieldTag = ""
    /\ fields = <<>>
    /\ err = NoError
    /\ pc = "build"
    /\ sv = SvIdle
    /\ BeyondScanIdle

\* args.Add(key, value), up to the bound of SpecTarget.
AddTarget(key, value) ==
    /\ pc = "build"
    /\ Len(args) < MaxTargetArgs
    /\ args' = Append(args, <<key, value>>)
    /\ UNCHANGED <<obj, old, fieldTag, fields, err, pc, sv, target, mem, beyondScan>>

NextTarget ==
    \/ \E key \in ArgKeys : \E value \in ArgValues(key) : AddTarget(key, value)
    \/ \E tag \in Namespaces : Scan(tag)

SpecTarget == InitTarget /\ [][NextTarget]_vars

(***************************************************************************)
(* What a call of ScanArgs was given, read off the state after it.         *)
(***************************************************************************)
Done == pc = "done"

FieldIdx == 1..Len(Fields)

\* The field carries a binding key under the namespace of the call.
Tagged(i) == Fields[i].exported /\ Fields[i].tags[fieldTag] \notin {"", "-"}

\* The binding key: the annotation up to its first comma.
KeyOf(i) == tagKey(Fields[i].tags[fieldTag])

\* The field is tagged and the multimap has its key.
Matched(i) == Tagged(i) /\ \E n \in 1..Len(args) : args[n][1] = KeyOf(i)

\* The values submitted under the field's key, in submission order.
ValuesOf(i) == PeekMulti(args, KeyOf(i))

IsBytes(i) == Fields[i].kind = "slice" /\ Fields[i].elem = "uint8"

IsSeq(i) == Fields[i].kind = "slice" /\ Fields[i].elem # "uint8"

\* The kind texts are coerced into: the element kind of a sequence.
CoerceKind(i) == IF Fields[i].kind = "slice" THEN Fields[i].elem ELSE Fields[i].kind

\* The field's kind (or element kind) is one ScanArgs binds.
Supported(i) == CoerceKind(i) \notin OtherKinds

\* A text can be coerced into a kind, and the value it is coerced to.
Coercible(kind, text) ==
    CASE kind \in IntKinds -> ParseInt(text).ok
      [] kind \in UintKinds -> ParseUint(text).ok
      [] kind \in FloatKinds -> ParseFloat(text).ok /\ ParseFloat(text).v.class = "num"
      [] kind = "bool" -> ParseBool(text).ok
      [] OTHER -> TRUE

Coerced(kind, text) ==
    CASE kind \in IntKinds -> SetInt(kind, ParseInt(text).v)
      [] kind \in UintKinds -> SetUint(kind, ParseUint(text).v)
      [] kind \in FloatKinds -> SetFloat(kind, ParseFloat(text).v)
      [] kind = "bool" -> ParseBool(text).v
      [] OTHER -> text

\* The positions of the submitted values that fail coercion: all values
\* count for a sequence, the first one only for a scalar, none for bytes.
FailingAt(i) ==
    LET vals == ValuesOf(i)
    IN  IF IsBytes(i) THEN {}
        ELSE IF IsSeq(i) THEN {k \in 1..Len(vals) : ~Coercible(CoerceKind(i), vals[k])}
        ELSE {k \in {1} : ~Coercible(CoerceKind(i), vals[k])}

\* The fields at which coercion fails.
FailingFields == {i \in FieldIdx : Matched(i) /\ FailingAt(i) # {}}

\* The value a binding gives the field.
BoundValue(i) ==
    LET vals == ValuesOf(i)
    IN  IF IsBytes(i) THEN vals[1]
        ELSE IF IsSeq(i) THEN [k \in 1..Len(vals) |-> Coerced(CoerceKind(i), vals[k])]
        ELSE Coerced(CoerceKind(i), vals[1])

Now(i) == obj[Fields[i].name]

Before(i) == old[Fields[i].name]

(***************************************************************************)
(* C1: ScanArgs fails fast without rollback.  When it returns an error,    *)
(* the error is that of the first field, in declaration order, at which    *)
(* coercion fails; every matched field before it holds the value bound in  *)
(* this call, every field after it holds what it held before the call, and *)
(* the key list is nil.                                                    *)
(***************************************************************************)
C1_FailFastNoRollback ==
    (Done /\ err # NoError) =>
        LET failing == FailingFields
            first   == Min(failing)
        IN  /\ failing # {}
            /\ err[2] = KeyOf(first)
            /\ fields = <<>>
            /\ \A i \in FieldIdx :
                 /\ (i < first /\ Matched(i) /\ Supported(i)) => Now(i) = BoundValue(i)
                 /\ i > first => Now(i) = Before(i)

\* str1 was bound to a target that held another value, int1 failed, and nan,
\* declared later and submitted with a good value, kept its old value.
C1_Witness ==
    /\ Done /\ fieldTag = "url"
    /\ args = << <<"nan", "-1.2">>, <<"int1", "abc">>, <<"str1", "abc">> >>
    /\ err # NoError /\ err[2] = "int1"
    /\ old["Str1"] = "old" /\ obj["Str1"] = "abc"
    /\ obj["NaN"] = old["NaN"] /\ obj["NaN"] # FNum(TRUE, 12, -1)

\* The fields the call went through without an error: all of them, or those
\* before the first failing field.
Reached ==
    IF err = NoError THEN FieldIdx ELSE 1..(Min(FailingFields) - 1)

\* The keys ScanArgs returned, as a set.
Listed == {fields[n] : n \in 1..Len(fields)}

\* The first value submitted under a key.
FirstValue(key) == args[Min({n \in 1..Len(args) : args[n][1] = key})][2]

\* The keys of the matched fields of a bindable kind (scalar, sequence or
\* byte sequence) from field i on, in declaration order.
RECURSIVE AssignedKeys(_)
AssignedKeys(i) ==
    IF i > Len(Fields) THEN <<>>
    ELSE (IF Matched(i) /\ Supported(i) THEN <<KeyOf(i)>> ELSE <<>>) \o AssignedKeys(i + 1)

(***************************************************************************)
(* C2: on success the returned list holds exactly the keys of the fields   *)
(* that were matched and assigned, byte sequences included, in declaration *)
(* order.  The code leaves the []byte case with continue before the key is *)
(* appended, so the key of an assigned byte sequence is never listed.      *)
(***************************************************************************)
C2_ReturnsAssignedKeys ==
    (Done /\ err = NoError) => fields = AssignedKeys(1)

(***************************************************************************)
(* C3: a matched field of a kind (or element kind) setVal has no case for  *)
(* is skipped: it keeps its value, its key is not listed and it raises no  *)
(* error.  The code assigns a sequence field the fresh slice it made even  *)
(* when no element was set, so such a field becomes n zero elements.       *)
(***************************************************************************)
C3_UnsupportedKindSkipped ==
    Done => \A i \in FieldIdx :
        (Matched(i) /\ ~Supported(i)) =>
            /\ Now(i) = Before(i)
            /\ KeyOf(i) \notin Listed
            /\ err # NoError => err[2] # KeyOf(i)

\* The expected-kind reason of a kind.
Reason(kind) ==
    CASE kind \in IntKinds -> "expected int"
      [] kind \in UintKinds -> "expected unsigned int"
      [] kind \in FloatKinds -> "expected decimal"
      [] kind = "bool" -> "expected boolean"

(***************************************************************************)
(* C5: the error of a coercion failure names the key of the first failing  *)
(* field, the raw value that failed (for a sequence the first failing      *)
(* element in submission order) and the expected-kind reason, in the form  *)
(* failed to decode <key>, got: <value> (<reason>).                        *)
(***************************************************************************)
C5_ErrorNamesKeyValueReason ==
    (Done /\ err # NoError) =>
        LET failing == FailingFields
            first   == Min(failing)
            bad     == ValuesOf(first)[Min(FailingAt(first))]
        IN  /\ failing # {}
            /\ err = <<"failed to decode ", KeyOf(first), ", got: ", bad,
                       " (" \o Reason(CoerceKind(first)) \o ")">>

\* A sequence of ints whose second and third values both fail: the error
\* names the second.
C5_Witness ==
    /\ Done
    /\ args = << <<"int", "123">>, <<"int", "def">>, <<"int", "abc">> >>
    /\ err = <<"failed to decode ", "int", ", got: ", "def", " (expected int)">>

(***************************************************************************)
(* C6: after a successful ScanArgs a matched sequence field (not a byte    *)
(* sequence) holds exactly one element per submitted value, the k-th being *)
(* the coercion of the k-th value; what it held before is replaced.        *)
(***************************************************************************)
C6_SequenceReplaced ==
    (Done /\ err = NoError) => \A i \in FieldIdx :
        (Matched(i) /\ IsSeq(i) /\ Supported(i)) =>
            LET vals == ValuesOf(i)
            IN  /\ DOMAIN Now(i) = 1..Len(vals)
                /\ \A k \in 1..Len(vals) : Now(i)[k] = Coerced(Fields[i].elem, vals[k])

\* Ints held three elements and holds the two submitted ones, in order.
C6_Witness ==
    /\ Done /\ err = NoError
    /\ args = << <<"int", "-1">>, <<"str1", "abc">>, <<"int", "123">> >>
    /\ old["Ints"] = <<1, 2, 3>>
    /\ obj["Ints"] = <<-1, 123>>

(***************************************************************************)
(* C7: a matched byte-sequence field that ScanArgs reaches receives the    *)
(* first value under its key verbatim, however many values the key has,    *)
(* and no error is ever reported for it.                                   *)
(***************************************************************************)
C7_BytesVerbatim ==
    Done => \A i \in FieldIdx :
        (Matched(i) /\ IsBytes(i)) =>
            /\ err # NoError => err[2] # KeyOf(i)
            /\ i \in Reached => Now(i) = FirstValue(KeyOf(i))

\* Two values under bytes, the first a numeral: the field holds it as text.
C7_Witness ==
    /\ Done
    /\ args = << <<"bytes", "123">>, <<"bytes", "abc">>, <<"int1", "abc">> >>
    /\ old["Bytes"] = "xyz"
    /\ obj["Bytes"] = "123"

(***************************************************************************)
(* C8: a field with no annotation under the namespace of the call, or      *)
(* with the ignore sentinel, is never changed.                             *)
(***************************************************************************)
C8_UnannotatedUntouched ==
    Done => \A i \in FieldIdx :
        Fields[i].tags[fieldTag] \in {"", "-"} => Now(i) = Before(i)

\* The multimap holds the sentinel, the empty key and the key of another
\* namespace; str1 is bound and the other fields keep their values.
C8_Witness ==
    /\ Done /\ fieldTag = "url" /\ err = NoError
    /\ {args[n][1] : n \in 1..Len(args)} = {"-", "", "otherval"}
    /\ old = PopObj /\ obj = old

(***************************************************************************)
(* C9: a tagged field whose key the multimap lacks keeps its value, has    *)
(* no error reported for it and is not listed, and the fields after it     *)
(* are still bound.                                                        *)
(***************************************************************************)
C9_MissingKeySkipped ==
    Done =>
        /\ \A i \in FieldIdx :
             (Tagged(i) /\ ~Matched(i)) =>
                 /\ Now(i) = Before(i)
                 /\ KeyOf(i) \notin Listed
                 /\ err # NoError => err[2] # KeyOf(i)
        /\ \A j \in Reached :
             (Matched(j) /\ Supported(j) /\ \E i \in 1..(j - 1) : Tagged(i) /\ ~Matched(i))
             => Now(j) = BoundValue(j)

\* Only nan is submitted: Int1, declared before it, keeps its value and
\* NaN is bound.
C9_Witness ==
    /\ Done /\ fieldTag = "url" /\ err = NoError
    /\ args = << <<"nan", "-1.2">> >>
    /\ old["Int1"] = 7 /\ obj["Int1"] = 7
    /\ obj["NaN"] = FNum(TRUE, 12, -1)
    /\ fields = <<"nan">>

(***************************************************************************)
(* Claims about setVal, stated on the last call of SpecSetVal.             *)
(***************************************************************************)
\* The spellings of not-a-number and of the infinities among SetValTexts.
NonFiniteTexts ==
    {"NaN", "nan", "NAN", "Inf", "inf", "-inf", "Infinity", "INFINITY", "+INF", "-INF"}

ZeroTexts == {"0", "0.0", "-0"}

(***************************************************************************)
(* C4: coercion into a floating-point field succeeds only for text that    *)
(* denotes a finite number.  NaN, Inf, Infinity, +INF and -INF in any      *)
(* casing fail with "expected decimal" and leave the field as it was; 0,   *)
(* 0.0 and -0 succeed and give numeric zero.                               *)
(***************************************************************************)
C4_FloatFiniteOnly ==
    (sv.called /\ sv.kind \in FloatKinds) =>
        /\ sv.val \in NonFiniteTexts =>
             (sv.err = "expected decimal" /\ sv.f = sv.old /\ ~sv.scanned)
        /\ sv.val \in ZeroTexts => (sv.err = Nil /\ IsZero(sv.f))
        /\ sv.err = Nil => Coercible(sv.kind, sv.val)

\* A field holding -1.2 is given +INF: the call fails and the field keeps -1.2.
C4_Witness ==
    /\ sv.called /\ sv.kind = "float64"
    /\ sv.val = "+INF"
    /\ sv.err = "expected decimal"
    /\ sv.old = FNum(TRUE, 12, -1) /\ sv.f = sv.old

\* A base-10 integer literal, and the integer it denotes.
IsIntLiteral(text) == IsDigits(unsigned(text))

Denoted(text) ==
    IF isNeg(text) THEN 0 - DecVal(unsigned(text)) ELSE DecVal(unsigned(text))

(***************************************************************************)
(* C10: an integer field of any width that is bound a base-10 literal      *)
(* without error holds the integer the text denotes, and text that is no   *)
(* base-10 literal fails with "expected int" or "expected unsigned int".   *)
(* The code parses to 64 bits whatever the field's width and SetInt /      *)
(* SetUint keep the low bits, so a literal beyond the range of a narrow    *)
(* field is bound without error to another integer.                        *)
(***************************************************************************)
C10_IntegerRoundTrip ==
    (sv.called /\ sv.kind \in IntKinds \cup UintKinds) =>
        /\ sv.err = Nil => sv.f = Denoted(sv.val)
        /\ ~IsIntLiteral(sv.val) => sv.err = Reason(sv.kind)

(***************************************************************************)
(* Further claims about ScanArgs.                                          *)
(***************************************************************************)
\* The field is a matched scalar (not a sequence) of a kind setVal binds.
ScalarBound(i) == Matched(i) /\ Fields[i].kind # "slice" /\ Supported(i)

(***************************************************************************)
(* C11: a scalar field whose key has several values takes the first value  *)
(* in submission order only.  A call that succeeds left the field at the   *)
(* coercion of the first value; a field the call changed holds that        *)
(* coercion; and an error naming the field's key reports the first value,  *)
(* which is one that cannot be coerced.  Later values under the key are    *)
(* never read.                                                             *)
(***************************************************************************)
C11_ScalarFirstValueOnly ==
    Done => \A i \in FieldIdx : ScalarBound(i) =>
        LET v    == FirstValue(KeyOf(i))
            kind == Fields[i].kind
        IN  /\ err = NoError => (Coercible(kind, v) /\ Now(i) = Coerced(kind, v))
            /\ (err # NoError /\ Now(i) # Before(i)) => Now(i) = Coerced(kind, v)
            /\ (err # NoError /\ err[2] = KeyOf(i)) => (err[4] = v /\ ~Coercible(kind, v))

\* int1 was submitted as 123 and then as abc: the call succeeded and the
\* field, which held 7, holds 123.
C11_Witness ==
    /\ Done /\ fieldTag = "url" /\ err = NoError
    /\ args = << <<"int1", "123">>, <<"int1", "abc">> >>
    /\ old["Int1"] = 7 /\ obj["Int1"] = 123 /\ fields = <<"int1">>

\* The target is a struct or a pointer to a struct.
IsStructTarget == target.kind = "struct" \/ (target.kind = "ptr" /\ target.elem = "struct")

(***************************************************************************)
(* C12: ScanArgs never panics, whatever its target is, and for a target    *)
(* that is neither a struct nor a pointer to a struct (a nil interface and *)
(* a nil pointer included) it returns the non-struct error and a nil key   *)
(* list and leaves the target as it was; a struct or a pointer to one      *)
(* never gets that error.                                                  *)
(***************************************************************************)
C12_NonStructTargetIsAnError ==
    /\ pc # "panicked"
    /\ (Done /\ ~IsStructTarget) => (err = nonStructErr /\ fields = <<>> /\ obj = old)
    /\ (Done /\ IsStructTarget) => err # nonStructErr

\* ScanArgs returned the error for a nil interface while the multimap held a
\* pair.
C12_Witness ==
    /\ Done /\ target = Invalid /\ Len(args) = 1
    /\ err = nonStructErr /\ fields = <<>> /\ obj = NilPtr

\* ScanArgs returned the error for a pointer to a pointer to a struct and
\* left the struct alone although the multimap has one of its keys.
C12_WitnessPtrPtr ==
    /\ Done /\ target = PtrTo("ptr") /\ fieldTag = "url"
    /\ args = << <<"str1", "abc">> >>
    /\ err = nonStructErr /\ obj = PopObj

(***************************************************************************)
(* The nested-key tree builder (UnmarshalArgs).  A tree is an object (a    *)
(* map from property names to trees), an array (a sequence of trees) or a  *)
(* scalar: a string, a number, a boolean or null.                          *)
(***************************************************************************)
Obj(m) == [t |-> "obj", m |-> m]

Arr(e) == [t |-> "arr", e |-> e]

Str(s) == [t |-> "str", s |-> s]

Num(n) == [t |-> "num", n |-> n]

Bool(b) == [t |-> "bool", b |-> b]

Null == [t |-> "null"]

\* The outcome of a build that fails.
Failed == [t |-> "failed"]

\* The object with no property and the object with the one property k.
EmptyObj == Obj([k \in {} |-> Null])

Obj1(k, v) == Obj([x \in {k} |-> v])

\* An integer part: 0, or digits that do not start with 0.
jsonInt(s) == IsDigits(s) /\ (Len(s) = 1 \/ Char(s, 1) # "0")

\* The digits of an exponent, after its optional sign.
expDigits(ex) ==
    IF Len(ex) > 0 /\ Char(ex, 1) \in {"+", "-"} THEN SubSeq(ex, 2, Len(ex)) ELSE ex

\* A number literal without its minus sign: the mantissa mant, the position
\* of its point, whether an exponent follows, and the exponent ex.
jsonNumberBody(mant, dot, hasExp, ex) ==
    /\ jsonInt(before(mant, dot))
    /\ dot # 0 => IsDigits(after(mant, dot))
    /\ hasExp => IsDigits(expDigits(ex))

jsonUnsigned(b, ePos) ==
    jsonNumberBody(before(b, ePos), IndexAny(before(b, ePos), {"."}), ePos # 0, after(b, ePos))

\* The text is a number literal: [-] int [. digits] [e [sign] digits].
IsJSONNumber(s) ==
    IF Len(s) > 0 /\ Char(s, 1) = "-"
    THEN jsonUnsigned(SubSeq(s, 2, Len(s)), IndexAny(SubSeq(s, 2, Len(s)), {"e", "E"}))
    ELSE jsonUnsigned(s, IndexAny(s, {"e", "E"}))

\* The number a number literal denotes; one beyond the 64 bit range is not
\* a number.
numLiteral(p) == IF p.ok THEN [ok |-> TRUE, v |-> Num(p.v)] ELSE [ok |-> FALSE, v |-> Null]

\* The attempt to read a raw text as a scalar literal: a number, a boolean
\* or null.
parseLiteral(text) ==
    IF text = "true" THEN [ok |-> TRUE, v |-> Bool(TRUE)]
    ELSE IF text = "false" THEN [ok |-> TRUE, v |-> Bool(FALSE)]
    ELSE IF text = "null" THEN [ok |-> TRUE, v |-> Null]
    ELSE IF IsJSONNumber(text) THEN numLiteral(ParseFloat(text))
    ELSE [ok |-> FALSE, v |-> Null]

\* A reading that fails on a text that is no literal.
literalOrFail(text, p) == IF p.ok THEN p.v ELSE Failed

\* The scalar for a raw text once the attempt gave p: the literal's value,
\* or else the text as a string.
literalOr(text, p) == IF p.ok THEN p.v ELSE Str(text)

translate(text) == literalOr(text, parseLiteral(text))

\* The bracketed groups of s, which is empty or starts with "[".
RECURSIVE groups(_)
RECURSIVE groupsFrom(_, _)
groups(s) == IF s = "" THEN <<>> ELSE groupsFrom(s, IndexAny(s, {"]"}))

groupsFrom(s, close) == <<SubSeq(s, 2, close - 1)>> \o groups(SubSeq(s, close + 1, Len(s)))

segmentsAt(key, open) ==
    IF open = 0 THEN <<key>>
    ELSE <<SubSeq(key, 1, open - 1)>> \o groups(SubSeq(key, open, Len(key)))

\* The path segments of a key: the property name, then the content of every
\* bracket pair; an empty pair gives the empty segment.
Segments(key) == segmentsAt(key, IndexAny(key, {"["}))

\* The segments from the n-th on, each in brackets.
RECURSIVE bracketed(_, _)
bracketed(segs, n) ==
    IF n > Len(segs) THEN "" ELSE "[" \o segs[n] \o "]" \o bracketed(segs, n + 1)

\* The key without its first segment.
suffixKey(segs) == segs[2] \o bracketed(segs, 3)

\* The node for segs once the suffix key gave rec: the empty second segment
\* marks an array, whose one element is what rec holds under "".
wrap(segs, rec) ==
    IF rec = Failed THEN Failed
    ELSE IF segs[2] = "" THEN Obj1(segs[1], Arr(<<rec.m[""]>>))
    ELSE Obj1(segs[1], rec)

\* The leaf node for the last segment.
leaf(name, v) == IF v = Failed THEN Failed ELSE Obj1(name, v)

\* The node for one (key, value) pair.
RECURSIVE buildNested(_, _)
RECURSIVE buildSegs(_, _)
buildNested(key, value) == buildSegs(Segments(key), value)

buildSegs(segs, value) ==
    IF Len(segs) = 1 THEN leaf(segs[1], translate(value))
    ELSE wrap(segs, buildNested(suffixKey(segs), value))

\* A merge of objects in which a property of the later object replaces the
\* earlier object's.
RECURSIVE mergeShallow(_, _)
mergeShallow(a, b) ==
    IF a.t = "obj" /\ b.t = "obj"
    THEN Obj([k \in DOMAIN a.m \cup DOMAIN b.m |->
                 IF k \in DOMAIN b.m THEN b.m[k] ELSE a.m[k]])
    ELSE IF a.t = "arr" /\ b.t = "arr" THEN Arr(a.e \o b.e)
    ELSE b

\* A merge that keeps the earlier value where the two cannot be merged.
RECURSIVE mergeKeepsEarlier(_, _)
mergeKeepsEarlier(a, b) ==
    IF a.t = "obj" /\ b.t = "obj"
    THEN Obj([k \in DOMAIN a.m \cup DOMAIN b.m |->
                 IF k \notin DOMAIN b.m THEN a.m[k]
                 ELSE IF k \notin DOMAIN a.m THEN b.m[k]
                 ELSE mergeKeepsEarlier(a.m[k], b.m[k])])
    ELSE IF a.t = "arr" /\ b.t = "arr" THEN Arr(a.e \o b.e)
    ELSE a

\* A merge in which the later array replaces the earlier.
RECURSIVE mergeReplacesArrays(_, _)
mergeReplacesArrays(a, b) ==
    IF a.t = "obj" /\ b.t = "obj"
    THEN Obj([k \in DOMAIN a.m \cup DOMAIN b.m |->
                 IF k \notin DOMAIN b.m THEN a.m[k]
                 ELSE IF k \notin DOMAIN a.m THEN b.m[k]
                 ELSE mergeReplacesArrays(a.m[k], b.m[k])])
    ELSE b

\* earlier (+) later: objects merge property by property, arrays are
\* concatenated, in any other pairing the later value replaces the earlier.
RECURSIVE mergeTrees(_, _)
mergeTrees(a, b) ==
    IF a.t = "obj" /\ b.t = "obj"
    THEN Obj([k \in DOMAIN a.m \cup DOMAIN b.m |->
                 IF k \notin DOMAIN b.m THEN a.m[k]
                 ELSE IF k \notin DOMAIN a.m THEN b.m[k]
                 ELSE mergeTrees(a.m[k], b.m[k])])
    ELSE IF a.t = "arr" /\ b.t = "arr" THEN Arr(a.e \o b.e)
    ELSE b

\* The nodes merged into the accumulator acc, in the order of the multimap.
RECURSIVE mergeAll(_, _, _)
mergeAll(acc, ns, i) ==
    IF i > Len(ns) THEN acc
    ELSE IF ns[i] = Failed THEN Failed
    ELSE mergeAll(mergeTrees(acc, ns[i]), ns, i + 1)

\* The node of every pair of the multimap.
nodesOf(a) == [i \in 1..Len(a) |-> buildNested(a[i][1], a[i][2])]

(***************************************************************************)
(* Specification SpecNested: a multimap with bracket keys is filled, then  *)
(* the builder makes a node for every pair and merges the nodes.           *)
(***************************************************************************)
\* The most pairs a multimap holds in SpecNested.
MaxPairs == 3

NestedKeys ==
    {"bar", "bar[one]", "bar[one][two]", "bar[one][red]", "bar[]", "bar[one][]",
     "items[]", "items"}

NestedValues == {"2", "x"}

InitNested ==
    /\ args = <<>>
    /\ nodes = <<>>
    /\ tree = NoTree
    /\ err = NoError
    /\ pc = "build"
    /\ obj = <<>>
    /\ old = <<>>
    /\ fieldTag = ""
    /\ fields = <<>>
    /\ sv = SvIdle
    /\ target = NoTarget
    /\ mem = {}
    /\ HttpIdle

\* args.Add(key, value), up to the bound of SpecNested.
AddNested(key, value) ==
    /\ pc = "build"
    /\ Len(args) < MaxPairs
    /\ args' = Append(args, <<key, value>>)
    /\ UNCHANGED <<obj, old, fieldTag, fields, err, pc, sv, target, mem, nestVars, httpVars>>

\* The builder's result for the nodes ns.
Built(ns) ==
    /\ nodes' = ns
    /\ tree' = mergeAll(EmptyObj, ns, 1)

\* The builder runs over the multimap.
BuildTree ==
    /\ pc = "build"
    /\ Built(nodesOf(args))
    /\ pc' = "done"
    /\ UNCHANGED <<args, obj, old, fieldTag, fields, err, sv, target, mem, httpVars>>

NextNested ==
    \/ \E key \in NestedKeys : \E value \in NestedValues : AddNested(key, value)
    \/ BuildTree

SpecNested == InitNested /\ [][NextNested]_vars

(***************************************************************************)
(* Specification SpecNode: the builder runs over a multimap of one pair    *)
(* whose key has no brackets.                                              *)
(***************************************************************************)
PlainKeys == {"", "bar", "items", "flow_id", "Ref"}

NodeTexts ==
    {"12", "-1.5", "1e2", "0", "100", "2.50", "1E-3", "-7", "true", "false", "null",
     "abc", "", "True", "FALSE", "Null", "nul", "1a", "--1", "1e", "NaN", "01",
     "+1", "1.", ".5", "x[y]", "[]"}

InitNode ==
    /\ \E key \in PlainKeys : \E text \in NodeTexts : args = << <<key, text>> >>
    /\ nodes = <<>>
    /\ tree = NoTree
    /\ err = NoError
    /\ pc = "build"
    /\ obj = <<>>
    /\ old = <<>>
    /\ fieldTag = ""
    /\ fields = <<>>
    /\ sv = SvIdle
    /\ target = NoTarget
    /\ mem = {}
    /\ HttpIdle

SpecNode == InitNode /\ [][BuildTree]_vars

(***************************************************************************)
(* What the builder was given, read off the state after it.                *)
(***************************************************************************)
PairIdx == 1..Len(args)

\* The key has an empty bracket pair.
HasMarker(key) == \E n \in 2..Len(Segments(key)) : Segments(key)[n] = ""

\* The segments before the first empty one after the property name.
RECURSIVE upToMarker(_, _)
upToMarker(segs, n) ==
    IF n > Len(segs) \/ (n > 1 /\ segs[n] = "") THEN <<>>
    ELSE <<segs[n]>> \o upToMarker(segs, n + 1)

\* The path a pair writes to: that of its scalar, or of its array.
PathOf(i) == upToMarker(Segments(args[i][1]), 1)

\* What a pair puts at its path.
LeafOf(i) == IF HasMarker(args[i][1]) THEN "arr" ELSE "scalar"

IsPrefix(p, q) == Len(p) <= Len(q) /\ SubSeq(q, 1, Len(p)) = p

\* The value at a path of a tree of objects.
Missing == [t |-> "missing"]

RECURSIVE At(_, _)
At(tr, path) ==
    IF path = <<>> THEN tr
    ELSE IF tr.t = "obj" /\ Head(path) \in DOMAIN tr.m THEN At(tr.m[Head(path)], Tail(path))
    ELSE Missing

\* object, array or scalar.
ShapeOf(tr) == IF tr.t \in {"obj", "arr", "missing"} THEN tr.t ELSE "scalar"

\* Two pairs meet at a path with values that cannot be merged: the same
\* path with a scalar on either side, or the path of one running through
\* the path of the other (a scalar or an array against an object).
Conflict(i, j) ==
    \/ PathOf(i) = PathOf(j) /\ ~(LeafOf(i) = "arr" /\ LeafOf(j) = "arr")
    \/ PathOf(i) # PathOf(j) /\ (IsPrefix(PathOf(i), PathOf(j)) \/ IsPrefix(PathOf(j), PathOf(i)))

\* The scalar a number, boolean or null literal denotes, the text as a
\* string for any other text.
Literal(text) ==
    CASE text = "12" -> Num(FNum(FALSE, 12, 0))
      [] text = "-1.5" -> Num(FNum(TRUE, 15, -1))
      [] text = "1e2" -> Num(FNum(FALSE, 1, 2))
      [] text = "0" -> Num(FNum(FALSE, 0, 0))
      [] text = "100" -> Num(FNum(FALSE, 1, 2))
      [] text = "2.50" -> Num(FNum(FALSE, 25, -1))
      [] text = "1E-3" -> Num(FNum(FALSE, 1, -3))
      [] text = "-7" -> Num(FNum(TRUE, 7, 0))
      [] text = "2" -> Num(FNum(FALSE, 2, 0))
      [] text = "true" -> Bool(TRUE)
      [] text = "false" -> Bool(FALSE)
      [] text = "null" -> Null
      [] OTHER -> Str(text)

\* No key of the multimap has an empty bracket pair.
NoMarkers == \A i \in PairIdx : ~HasMarker(args[i][1])

\* Every pair's value is at the path of its key.
EveryValueAtItsPath == \A i \in PairIdx : At(tree, PathOf(i)) = Literal(args[i][2])

(***************************************************************************)
(* C13, as claimed: when the keys (without [] markers) denote pairwise     *)
(* distinct paths, the merged tree holds every pair's value at its path.   *)
(* Fails for bar[one][two]=2 and bar[one]=2: the paths differ but one runs *)
(* through the other, and the later value replaces the earlier.            *)
(***************************************************************************)
C13_DistinctPathsSurvive ==
    (Done /\ NoMarkers /\ \A i, j \in PairIdx : i # j => PathOf(i) # PathOf(j))
        => EveryValueAtItsPath

(***************************************************************************)
(* C13, amended: when the keys (without [] markers) denote paths none of   *)
(* which is a prefix of another (equal paths included), the merged tree    *)
(* holds every pair's value at its path, in whatever order the pairs were  *)
(* submitted: keys that share a prefix both survive under the shared       *)
(* parent.                                                                 *)
(***************************************************************************)
C13_IndependentPathsSurvive ==
    (Done /\ NoMarkers /\ \A i, j \in PairIdx : i # j => ~IsPrefix(PathOf(i), PathOf(j)))
        => EveryValueAtItsPath

\* bar[one][red] was visited before bar[one][two], and both are under bar.one.
C13_Witness ==
    /\ Done
    /\ args = << <<"bar[one][red]", "x">>, <<"bar[one][two]", "2">>, <<"items", "2">> >>
    /\ tree = Obj([k \in {"bar", "items"} |->
                     IF k = "items" THEN Num(FNum(FALSE, 2, 0))
                     ELSE Obj1("one", Obj([n \in {"two", "red"} |->
                                             IF n = "two" THEN Num(FNum(FALSE, 2, 0))
                                             ELSE Str("x")]))])

\* The pairs whose key is key, in submission order.
RECURSIVE Occurrences(_, _)
Occurrences(key, i) ==
    IF i > Len(args) THEN <<>>
    ELSE (IF args[i][1] = key THEN <<i>> ELSE <<>>) \o Occurrences(key, i + 1)

\* No pair of the multimap meets pair i with a value that cannot be merged.
Unopposed(i) == \A j \in PairIdx : ~Conflict(i, j)

(***************************************************************************)
(* C14: a key with the empty-bracket marker that was submitted n times,    *)
(* with no other pair of the multimap writing something else at its path,  *)
(* gives one array of exactly n elements under its property: the values in *)
(* submission order.                                                       *)
(***************************************************************************)
C14_MarkerCollectsInOrder ==
    Done => \A i \in PairIdx : (HasMarker(args[i][1]) /\ Unopposed(i)) =>
        LET occ == Occurrences(args[i][1], 1)
        IN  At(tree, PathOf(i)) = Arr([n \in 1..Len(occ) |-> Literal(args[occ[n]][2])])

\* items[] was submitted three times.
C14_Witness ==
    /\ Done
    /\ args = << <<"items[]", "2">>, <<"items[]", "x">>, <<"items[]", "2">> >>
    /\ tree = Obj1("items", Arr(<<Num(FNum(FALSE, 2, 0)), Str("x"), Num(FNum(FALSE, 2, 0))>>))

\* The pair's value is in the tree: its scalar at its path, or its element
\* in the array at its path.
Survives(j) ==
    LET at == At(tree, PathOf(j))
    IN  IF LeafOf(j) = "scalar" THEN at = Literal(args[j][2])
        ELSE at.t = "arr" /\ \E n \in 1..Len(at.e) : at.e[n] = Literal(args[j][2])

\* The path at which two conflicting pairs meet: the shorter of their paths.
MeetingPath(i, j) == IF Len(PathOf(i)) <= Len(PathOf(j)) THEN PathOf(i) ELSE PathOf(j)

\* What pair j has at a path on its own path.
ShapeAt(j, path) == IF path = PathOf(j) THEN LeafOf(j) ELSE "obj"

(***************************************************************************)
(* C15: last writer wins.  When two pairs meet at a path with values that  *)
(* cannot be merged (scalar with scalar, scalar with object or array,      *)
(* object with array) and no pair after the later one conflicts with it,   *)
(* the merged tree holds at that path what the later pair put there, and   *)
(* the later pair's value is in the tree.                                  *)
(***************************************************************************)
C15_LastWriterWins ==
    Done => \A i, j \in PairIdx :
        (i < j /\ Conflict(i, j) /\ \A k \in PairIdx : k > j => ~Conflict(j, k)) =>
            /\ Survives(j)
            /\ ShapeOf(At(tree, MeetingPath(i, j))) = ShapeAt(j, MeetingPath(i, j))

\* A scalar against a scalar, an object against a scalar and an array
\* against an object: the later one is in the tree.
C15_Witness ==
    /\ Done
    /\ args = << <<"items", "2">>, <<"items", "x">>, <<"bar[one]", "2">> >>
    /\ tree.m["items"] = Str("x")

C15_WitnessShapes ==
    /\ Done
    /\ args = << <<"bar", "2">>, <<"bar[one]", "x">>, <<"bar[]", "2">> >>
    /\ tree = Obj1("bar", Arr(<<Num(FNum(FALSE, 2, 0))>>))

(***************************************************************************)
(* C16: for a key without brackets the builder's node is the object with   *)
(* the one property key, whose value is the number, boolean or null the    *)
(* raw text denotes when it is such a literal and the raw text as a string *)
(* otherwise; no raw text makes the build fail.                            *)
(***************************************************************************)
C16_PlainKeyNode ==
    Done => /\ nodes[1] = Obj1(args[1][1], Literal(args[1][2]))
            /\ tree = nodes[1]

\* A number, a word that is nearly a literal, and the empty text.
C16_Witness ==
    /\ Done /\ args = << <<"flow_id", "-1.5">> >>
    /\ nodes = << Obj1("flow_id", Num(FNum(TRUE, 15, -1))) >>

C16_WitnessString ==
    /\ Done /\ args = << <<"Ref", "True">> >>
    /\ tree = Obj1("Ref", Str("True"))

(***************************************************************************)
(* Fastglue: routes, middleware and the proxy handler (src/fastglue.go).   *)
(* The routes are those of one path.  What ran for a request is recorded   *)
(* as a sequence of events: the kind of function, its position in its      *)
(* list, its name and what it returned.                                    *)
(***************************************************************************)
\* The methods of f.Any.
Methods == {"GET", "POST", "PUT", "DELETE"}

\* The methods Fastglue registers routes for.
RouteMethods == Methods \cup {"OPTIONS", "HEAD"}

Handlers == {"h1"}

Middleware == {"m1", "m2"}

\* No handler is registered.
NoHandler == "none"

\* The file handler of f.ServeStatic, registered without the proxy.
StaticHandler == "fs"

\* fasthttprouter.New(): no route.
NoRoutes == [m \in RouteMethods |-> NoHandler]

Event(kind, idx, name, out) == [kind |-> kind, idx |-> idx, name |-> name, out |-> out]

\* What a middleware returns: the request, or nil.
mwOut(isNil) == IF isNil THEN "nil" ELSE "req"

\* What a handler returns: an error, or nil.
handlerOut(fails) == IF fails THEN "error" ELSE "nil"

\* A loop over a middleware list that goes on after a nil.
RECURSIVE applyAll(_, _, _, _)
applyAll(kind, list, i, nils) ==
    IF i > Len(list) THEN <<>>
    ELSE <<Event(kind, i, list[i], mwOut(i \in nils))>> \o applyAll(kind, list, i + 1, nils)

\* for _, p := range list { if p(req) == nil { return } }: the calls made
\* from position i on, when the calls at the positions nils return nil.
RECURSIVE apply(_, _, _, _)
apply(kind, list, i, nils) ==
    IF i > Len(list) THEN <<>>
    ELSE IF i \in nils THEN <<Event(kind, i, list[i], "nil")>>
    ELSE <<Event(kind, i, list[i], "req")>> \o apply(kind, list, i + 1, nils)

\* The loop ended with a return.
returned(events) == events # <<>> /\ events[Len(events)].out = "nil"

\* A proxy that calls the handler before the before-middleware.
proxyHandlerFirst(bf, h, fails, af, nilsAfter) ==
    <<Event("handler", 0, h, handlerOut(fails))>> \o bf
        \o (IF returned(bf) THEN <<>> ELSE apply("after", af, 1, nilsAfter))

\* A proxy that passes by the after-middleware when the handler failed.
proxyAfterOnSuccess(bf, h, fails, af, nilsAfter) ==
    IF returned(bf) THEN bf
    ELSE bf \o <<Event("handler", 0, h, handlerOut(fails))>>
            \o (IF fails THEN <<>> ELSE apply("after", af, 1, nilsAfter))

\* The proxy of Fastglue.handler once the before-middleware made the calls
\* bf: the handler, whose error is dropped, then the after-middleware.
proxy(bf, h, fails, af, nilsAfter) ==
    IF returned(bf) THEN bf
    ELSE bf \o <<Event("handler", 0, h, handlerOut(fails))>> \o apply("after", af, 1, nilsAfter)

\* f.handler(h)(ctx)
handler(h, fails, nilsBefore, nilsAfter) ==
    proxy(apply("before", f_before, 1, nilsBefore), h, fails, f_after, nilsAfter)

\* The router's allowed(path, reqMethod): the methods the path has a route
\* for, the requested one and OPTIONS left out.
allowed(method) == {m \in RouteMethods \ {method, "OPTIONS"} : routes[m] # NoHandler}

\* Router.Handler(ctx): the handler of the route, which is the proxy or the
\* file handler; when the path has no route for the method, NotFoundHandler
\* if no other method is allowed, else the router's answer to OPTIONS (the
\* Allow header) or BadMethodHandler.
routerHandler(method, fails, nilsBefore, nilsAfter) ==
    IF routes[method] = StaticHandler THEN <<Event("FSHandler", 0, StaticHandler, "")>>
    ELSE IF routes[method] # NoHandler
    THEN handler(routes[method], fails, nilsBefore, nilsAfter)
    ELSE IF allowed(method) = {} THEN <<Event("NotFoundHandler", 0, "404", "")>>
    ELSE IF method = "OPTIONS" THEN <<Event("Allow", 0, "200", "")>>
    ELSE <<Event("BadMethodHandler", 0, "405", "")>>

(***************************************************************************)
(* Specification SpecGlue: routes and middleware are registered on a new   *)
(* Fastglue, then it serves requests.                                      *)
(***************************************************************************)
\* The most middleware of either kind.
MaxMiddleware == 2

InitGlue ==
    /\ routes = NoRoutes
    /\ f_before = <<>>
    /\ f_after = <<>>
    /\ gpc = "setup"
    /\ trace = <<>>
    /\ pc = "idle"
    /\ args = <<>>
    /\ obj = <<>>
    /\ old = <<>>
    /\ fieldTag = ""
    /\ fields = <<>>
    /\ err = NoError
    /\ sv = SvIdle
    /\ target = NoTarget
    /\ mem = {}
    /\ NestIdle
    /\ ParamIdle
    /\ SrvIdle
    /\ MoreIdle

\* f.GET(path, h), f.POST(path, h), f.PUT(path, h), f.DELETE(path, h),
\* f.OPTIONS(path, h), f.HEAD(path, h); the router panics on a second
\* handler for a method and path.
Handle(method, h) ==
    /\ gpc = "setup"
    /\ routes[method] = NoHandler
    /\ routes' = [routes EXCEPT ![method] = h]
    /\ UNCHANGED <<f_before, f_after, gpc, trace, bindVars, paramVars, srvVars, moreVars>>

\* f.Any(path, h)
HandleAny(h) ==
    /\ gpc = "setup"
    /\ \A m \in Methods : routes[m] = NoHandler
    /\ routes' = [m \in RouteMethods |-> IF m \in Methods THEN h ELSE routes[m]]
    /\ UNCHANGED <<f_before, f_after, gpc, trace, bindVars, paramVars, srvVars, moreVars>>

\* f.ServeStatic(path, rootPath, listDirectory): the router registers the
\* file handler for GET.
ServeStatic ==
    /\ gpc = "setup"
    /\ routes["GET"] = NoHandler
    /\ routes' = [routes EXCEPT !["GET"] = StaticHandler]
    /\ UNCHANGED <<f_before, f_after, gpc, trace, bindVars, paramVars, srvVars, moreVars>>

\* f.Before(fm)
RegisterBefore(fm) ==
    /\ gpc = "setup"
    /\ Len(f_before) < MaxMiddleware
    /\ f_before' = Append(f_before, fm)
    /\ UNCHANGED <<routes, f_after, gpc, trace, bindVars, paramVars, srvVars, moreVars>>

\* f.After(fm)
RegisterAfter(fm) ==
    /\ gpc = "setup"
    /\ Len(f_after) < MaxMiddleware
    /\ f_after' = Append(f_after, fm)
    /\ UNCHANGED <<routes, f_before, gpc, trace, bindVars, paramVars, srvVars, moreVars>>

\* The server starts to serve.
Listen ==
    /\ gpc = "setup"
    /\ gpc' = "serving"
    /\ UNCHANGED <<routes, f_before, f_after, trace, bindVars, paramVars, srvVars, moreVars>>

\* A request of the method arrives and is served; the middleware at the
\* positions nilsBefore and nilsAfter return nil when they are called, and
\* the handler returns an error when fails.
Serve(method, fails, nilsBefore, nilsAfter) ==
    /\ gpc = "serving"
    /\ trace' = routerHandler(method, fails, nilsBefore, nilsAfter)
    /\ UNCHANGED <<routes, f_before, f_after, gpc, bindVars, paramVars, srvVars, moreVars>>

\* Which middleware of a list return nil when called: none, or the one at
\* a position; what those behind it would return is never asked.
NilSets(list) == {{}} \cup {{k} : k \in 1..Len(list)}

NextGlue ==
    \/ \E method \in RouteMethods : \E h \in Handlers : Handle(method, h)
    \/ \E h \in Handlers : HandleAny(h)
    \/ ServeStatic
    \/ \E fm \in Middleware : RegisterBefore(fm)
    \/ \E fm \in Middleware : RegisterAfter(fm)
    \/ Listen
    \/ \E method \in RouteMethods : \E fails \in BOOLEAN :
         \E nilsBefore \in NilSets(f_before) :
           \E nilsAfter \in NilSets(f_after) :
             Serve(method, fails, nilsBefore, nilsAfter)

SpecGlue == InitGlue /\ [][NextGlue]_vars

(***************************************************************************)
(* What ran for the last request.                                          *)
(***************************************************************************)
TraceIdx == 1..Len(trace)

\* The request went to a route registered with a handler.
Routed ==
    /\ trace # <<>>
    /\ trace[1].kind \notin {"NotFoundHandler", "BadMethodHandler", "Allow", "FSHandler"}

\* The positions of the trace at which a before-middleware returned nil.
BeforeNil == {n \in TraceIdx : trace[n].kind = "before" /\ trace[n].out = "nil"}

\* The request went to a route registered through Fastglue: one with a
\* handler, or the file route of ServeStatic.
Registered ==
    /\ trace # <<>>
    /\ trace[1].kind \notin {"NotFoundHandler", "BadMethodHandler", "Allow"}

\* The positions of the trace at which the handler of the route ran, the
\* file handler being the handler of a file route.
RouteHandlerAt == {n \in TraceIdx : trace[n].kind \in {"handler", "FSHandler"}}

(***************************************************************************)
(* C17, as stated: for a request to any route registered through Fastglue  *)
(* the before-middleware run in registration order before the handler of   *)
(* the route, and once one of them returns nil nothing else runs.  It      *)
(* does not hold: the file route of ServeStatic is registered on the       *)
(* router without the proxy, and its requests reach the file handler with  *)
(* no before-middleware called.                                            *)
(***************************************************************************)
C17_EveryRegisteredRoute ==
    Registered =>
        /\ \A n \in TraceIdx : trace[n].kind = "before" =>
              /\ trace[n].idx = n /\ n <= Len(f_before) /\ trace[n].name = f_before[n]
        /\ \A n \in RouteHandlerAt :
              /\ n = Len(f_before) + 1
              /\ \A m \in 1..(n - 1) : trace[m].kind = "before" /\ trace[m].out = "req"
        /\ \A n \in TraceIdx : trace[n].kind = "after" =>
              \E m \in 1..(n - 1) : m \in RouteHandlerAt
        /\ \A n \in BeforeNil : Len(trace) = n
        /\ BeforeNil = {} => Len(f_before) + 1 \in RouteHandlerAt

(***************************************************************************)
(* C17, amended: for a request to a route registered with a handler (GET,  *)
(* POST, PUT, DELETE, OPTIONS, HEAD, Any) the before-middleware run in     *)
(* registration order, each after its predecessors returned the request,   *)
(* and the handler runs after all of them; once a before-middleware        *)
(* returns nil nothing else runs for the request: not the remaining        *)
(* before-middleware, not the handler, no after-middleware.  A request to  *)
(* the file route of ServeStatic runs the file handler and no middleware.  *)
(***************************************************************************)
C17_BeforeMiddlewareGate ==
    /\ Routed =>
        /\ \A n \in TraceIdx : trace[n].kind = "before" =>
              /\ trace[n].idx = n /\ n <= Len(f_before) /\ trace[n].name = f_before[n]
        /\ \A n \in TraceIdx : trace[n].kind = "handler" =>
              /\ n = Len(f_before) + 1
              /\ \A m \in 1..(n - 1) : trace[m].kind = "before" /\ trace[m].out = "req"
        /\ \A n \in TraceIdx : trace[n].kind = "after" =>
              \E m \in 1..(n - 1) : trace[m].kind = "handler"
        /\ \A n \in BeforeNil : Len(trace) = n
        /\ BeforeNil = {} => (Len(trace) > Len(f_before)
                               /\ trace[Len(f_before) + 1].kind = "handler")
    /\ (Registered /\ ~Routed) =>
        /\ routes["GET"] = StaticHandler
        /\ \A n \in TraceIdx : trace[n].kind \notin {"before", "handler", "after"}

\* A request to the file route, with two before-middleware registered:
\* none of them was called.
C17_WitnessStatic ==
    /\ gpc = "serving" /\ f_before = <<"m1", "m2">> /\ routes["GET"] = StaticHandler
    /\ trace = <<Event("FSHandler", 0, StaticHandler, "")>>

\* The second of two before-middleware returned nil: the handler and the
\* registered after-middleware did not run.
C17_Witness ==
    /\ gpc = "serving" /\ f_before = <<"m1", "m2">> /\ f_after # <<>>
    /\ routes["GET"] = "h1"
    /\ trace = <<Event("before", 1, "m1", "req"), Event("before", 2, "m2", "nil")>>

\* Both before-middleware returned the request and the handler ran.
C17_WitnessHandler ==
    /\ gpc = "serving" /\ f_before = <<"m2", "m1">>
    /\ Len(trace) >= 3 /\ trace[3] = Event("handler", 0, "h1", "error")

(***************************************************************************)
(* Envelopes and the parameter-checking wrappers (src/custom.go).          *)
(***************************************************************************)
statusSuccess == "success"

statusError == "error"

excepBadRequest == "InputException"

\* The content type of SendJSON.
JSON == "application/json"

\* An Envelope; the error type is left out of one that has none.
NoErrorType == "<omitted>"

Envelope(status, message, et) == [status |-> status, message |-> message, error_type |-> et]

\* A response nothing was written to: fasthttp's default status.
NewResponse == [code |-> 200, ctype |-> "", body |-> <<>>]

\* r.SendJSON(code, v)
SendJSON(rs, code, v) == [code |-> code, ctype |-> JSON, body |-> Append(rs.body, v)]

\* r.SendErrorEnvelope(code, message, nil, et)
SendErrorEnvelope(rs, code, message, et) ==
    SendJSON(rs, code, Envelope(statusError, message, IF et = "" THEN NoErrorType ELSE et))

\* r.SendEnvelope(data)
SendEnvelope(rs) == SendJSON(rs, 200, Envelope(statusSuccess, <<>>, NoErrorType))

\* The wrapped handler, called with the response rs: it sends a success
\* envelope and returns nil, or it returns an error.
callHandler(rs, fails) ==
    IF fails THEN [resp |-> rs, called |-> 1, ret |-> "error"]
    ELSE [resp |-> SendEnvelope(rs), called |-> 1, ret |-> "nil"]

\* The wrapper fails the request with the message: a 400 error envelope;
\* the handler is not called and the wrapper returns nil.
failRequest(rs, message) ==
    [resp |-> SendErrorEnvelope(rs, 400, message, excepBadRequest), called |-> 0, ret |-> "nil"]

\* Arguments that are always those of the query string.
requestArgsQueryOnly(r) == r.query

\* The post arguments of a POST or PUT, the query arguments otherwise.
requestArgs(r) == IF r.method \in {"POST", "PUT"} THEN r.post ELSE r.query

\* !args.Has(f) || len(args.Peek(f)) == 0
missingOrEmpty(a, f) == ~Has(a, f) \/ Len(Peek(a, f)) = 0

\* The loop of ReqParams over the fields from position i on, on the arguments a.
RECURSIVE reqParamsFrom(_, _, _, _, _)
reqParamsFrom(flds, i, a, rs, fails) ==
    IF i > Len(flds) THEN callHandler(rs, fails)
    ELSE IF missingOrEmpty(a, flds[i])
    THEN failRequest(rs, <<"Missing or empty field ", flds[i]>>)
    ELSE reqParamsFrom(flds, i + 1, a, rs, fails)

\* ReqParams(h, fields)(r)
ReqParams(flds, r, rs, fails) == reqParamsFrom(flds, 1, requestArgs(r), rs, fails)

\* A check of the minimum length only.
outOfRangeMinOnly(a, f, ln) == ~Has(a, f) \/ Len(Peek(a, f)) < ln[1]

\* !args.Has(f) || len(args.Peek(f)) < ln[0] || len(args.Peek(f)) > ln[1]
outOfRange(a, f, ln) == ~Has(a, f) \/ Len(Peek(a, f)) < ln[1] \/ Len(Peek(a, f)) > ln[2]

\* The loop of ReqLenRangeParams over the fields in the order the map is
\* ranged over, from position i on.
RECURSIVE reqLenRangeFrom(_, _, _, _, _, _)
reqLenRangeFrom(ranges, order, i, a, rs, fails) ==
    IF i > Len(order) THEN callHandler(rs, fails)
    ELSE IF outOfRange(a, order[i], ranges[order[i]])
    THEN failRequest(rs, <<order[i], " should be ", ranges[order[i]][1], " to ",
                           ranges[order[i]][2], " in length">>)
    ELSE reqLenRangeFrom(ranges, order, i + 1, a, rs, fails)

\* ReqLenRangeParams(h, fields)(r), the map being ranged over in order.
ReqLenRangeParams(ranges, order, r, rs, fails) ==
    reqLenRangeFrom(ranges, order, 1, requestArgs(r), rs, fails)

(***************************************************************************)
(* Specifications SpecParams and SpecLenRange: a request is filled with    *)
(* query and post arguments, then the wrapper is called with it once.      *)
(***************************************************************************)
\* The most fields ReqParams is given.
MaxFields == 2

\* The most arguments of a request, query and post together.
MaxReqArgs == 2

ParamKeys == {"name", "age"}

ParamValues == {"", "a", "abc"}

\* The sequences over S of length up to n.
SeqUpTo(S, n) == UNION {[1..k -> S] : k \in 0..n}

\* The orders in which a map with the keys S can be ranged over.
Orders(S) == {o \in [1..Cardinality(S) -> S] : \A k \in S : \E i \in DOMAIN o : o[i] = k}

\* The length ranges a field is given: one to two, two to three, none.
Ranges == {<<1, 2>>, <<2, 3>>, <<3, 1>>}

\* The maps ReqLenRangeParams is given.
RangeMaps == UNION {[S -> Ranges] : S \in SUBSET ParamKeys}

NewRequest(method) == [method |-> method, query |-> <<>>, post |-> <<>>]

InitRequest ==
    /\ \E method \in Methods : req = NewRequest(method)
    /\ resp = NewResponse
    /\ called = 0
    /\ ret = "none"
    /\ rpc = "build"
    /\ pc = "idle"
    /\ args = <<>>
    /\ obj = <<>>
    /\ old = <<>>
    /\ fieldTag = ""
    /\ fields = <<>>
    /\ err = NoError
    /\ sv = SvIdle
    /\ target = NoTarget
    /\ mem = {}
    /\ NestIdle
    /\ GlueIdle
    /\ SrvIdle
    /\ MoreIdle

InitParams == cfg \in SeqUpTo(ParamKeys, MaxFields) /\ InitRequest

InitLenRange == cfg \in RangeMaps /\ InitRequest

\* A pair is added to the query string.
AddQueryArg(key, value) ==
    /\ rpc = "build"
    /\ Len(req.query) + Len(req.post) < MaxReqArgs
    /\ req' = [req EXCEPT !.query = Append(@, <<key, value>>)]
    /\ UNCHANGED <<cfg, resp, called, ret, rpc, bindVars, glueVars, srvVars, moreVars>>

\* A pair is added to the form body.
AddPostArg(key, value) ==
    /\ rpc = "build"
    /\ Len(req.query) + Len(req.post) < MaxReqArgs
    /\ req' = [req EXCEPT !.post = Append(@, <<key, value>>)]
    /\ UNCHANGED <<cfg, resp, called, ret, rpc, bindVars, glueVars, srvVars, moreVars>>

\* The wrapper returned r.
Wrapped(r) ==
    /\ resp' = r.resp
    /\ called' = r.called
    /\ ret' = r.ret

\* ReqParams(h, cfg)(req), with a handler that fails or not.
CallReqParams(fails) ==
    /\ rpc = "build"
    /\ Wrapped(ReqParams(cfg, req, resp, fails))
    /\ rpc' = "done"
    /\ UNCHANGED <<cfg, req, bindVars, glueVars, srvVars, moreVars>>

\* ReqLenRangeParams(h, cfg)(req), the map being ranged over in order.
CallReqLenRange(order, fails) ==
    /\ rpc = "build"
    /\ Wrapped(ReqLenRangeParams(cfg, order, req, resp, fails))
    /\ rpc' = "done"
    /\ UNCHANGED <<cfg, req, bindVars, glueVars, srvVars, moreVars>>

NextParams ==
    \/ \E key \in ParamKeys : \E value \in ParamValues : AddQueryArg(key, value)
    \/ \E key \in ParamKeys : \E value \in ParamValues : AddPostArg(key, value)
    \/ \E fails \in BOOLEAN : CallReqParams(fails)

NextLenRange ==
    \/ \E key \in ParamKeys : \E value \in ParamValues : AddQueryArg(key, value)
    \/ \E key \in ParamKeys : \E value \in ParamValues : AddPostArg(key, value)
    \/ \E order \in Orders(DOMAIN cfg) : \E fails \in BOOLEAN : CallReqLenRange(order, fails)

SpecParams == InitParams /\ [][NextParams]_vars

SpecLenRange == InitLenRange /\ [][NextLenRange]_vars

(***************************************************************************)
(* What a wrapper was called with, read off the state after it.            *)
(***************************************************************************)
Wrapped_Done == rpc = "done"

\* The arguments the wrapper has to look at.
Relevant == IF req.method = "POST" \/ req.method = "PUT" THEN req.post ELSE req.query

\* The positions of the relevant arguments under the key f.
Under(f) == {n \in 1..Len(Relevant) : Relevant[n][1] = f}

\* The handler was invoked once, on the untouched response, and the wrapper
\* returned what the handler returned.
HandlerInvoked ==
    /\ called = 1
    /\ \/ ret = "nil" /\ resp = SendEnvelope(NewResponse)
       \/ ret = "error" /\ resp = NewResponse

\* The handler was not invoked, the wrapper returned nil, and the response
\* is one 400 envelope with error_type InputException.
Refused ==
    /\ called = 0
    /\ ret = "nil"
    /\ resp.code = 400
    /\ Len(resp.body) = 1
    /\ resp.body[1].status = "error"
    /\ resp.body[1].error_type = "InputException"

\* The positions of the listed fields with no non-empty value at all.
WithoutValue == {i \in 1..Len(cfg) : \A n \in Under(cfg[i]) : Relevant[n][2] = ""}

\* The positions of the listed fields that are absent or whose first value
\* is empty.
FirstValueEmpty ==
    {i \in 1..Len(cfg) : Under(cfg[i]) = {} \/ Relevant[Min(Under(cfg[i]))][2] = ""}

(***************************************************************************)
(* C18, as claimed: the handler is invoked if and only if every listed     *)
(* field is present with a non-empty value in the request's arguments.     *)
(* Fails for name=&name=a: the field has a non-empty value, but the        *)
(* wrapper looks at the first value only and refuses the request.          *)
(***************************************************************************)
C18_InvokedIffSomeValueNonEmpty ==
    Wrapped_Done => (called = 1 <=> WithoutValue = {})

(***************************************************************************)
(* C18, amended: the handler wrapped by ReqParams is invoked if and only   *)
(* if every listed field is present with a non-empty first value in the    *)
(* request's arguments (post arguments for POST and PUT, query arguments   *)
(* for every other method); otherwise exactly one 400 error envelope with  *)
(* error_type InputException is sent, for the first failing field in list  *)
(* order, the handler is not invoked and the wrapper returns nil.          *)
(***************************************************************************)
C18_InvokedIffFirstValuesNonEmpty ==
    Wrapped_Done =>
        IF FirstValueEmpty = {} THEN HandlerInvoked
        ELSE /\ Refused
             /\ resp.body[1].message = <<"Missing or empty field ", cfg[Min(FirstValueEmpty)]>>

\* A POST with the field in the query string only is refused for name, the
\* first of the two listed fields.
C18_Witness ==
    /\ Wrapped_Done /\ cfg = <<"name", "age">>
    /\ req = [method |-> "POST", query |-> << <<"name", "a">> >>, post |-> << <<"age", "a">> >>]
    /\ called = 0 /\ resp.code = 400
    /\ resp.body = <<Envelope("error", <<"Missing or empty field ", "name">>, "InputException")>>

\* A DELETE with both fields in the query string reaches the handler.
C18_WitnessInvoked ==
    /\ Wrapped_Done /\ cfg = <<"name", "age">> /\ req.method = "DELETE"
    /\ req.query = << <<"age", "abc">>, <<"name", "a">> >>
    /\ called = 1 /\ resp.code = 200

\* The first value of the field lies in the range the map gives it.
InRange(f) ==
    /\ Under(f) # {}
    /\ Len(Relevant[Min(Under(f))][2]) >= cfg[f][1]
    /\ Len(Relevant[Min(Under(f))][2]) <= cfg[f][2]

(***************************************************************************)
(* C19: the handler wrapped by ReqLenRangeParams is invoked if and only if *)
(* every listed field is present and the length of its first value lies in *)
(* the inclusive range [min, max] given for it; otherwise one 400          *)
(* InputException envelope is sent, which names a field that is missing,   *)
(* too short or too long, and the handler is not invoked.                  *)
(***************************************************************************)
C19_InvokedIffLengthsInRange ==
    Wrapped_Done =>
        IF \A f \in DOMAIN cfg : InRange(f) THEN HandlerInvoked
        ELSE /\ Refused
             /\ \E f \in DOMAIN cfg : ~InRange(f) /\ resp.body[1].message[1] = f

\* The first value of name is too long for the range 1 to 2.
C19_Witness ==
    /\ Wrapped_Done /\ DOMAIN cfg = {"name"} /\ cfg["name"] = <<1, 2>>
    /\ req.method = "GET" /\ req.query = << <<"name", "abc">>, <<"name", "a">> >>
    /\ called = 0 /\ resp.code = 400

\* Both fields are in range in the form body of a PUT.
C19_WitnessInvoked ==
    /\ Wrapped_Done /\ DOMAIN cfg = {"name", "age"}
    /\ cfg["name"] = <<1, 2>> /\ cfg["age"] = <<2, 3>>
    /\ req.method = "PUT" /\ req.post = << <<"name", "a">>, <<"age", "abc">> >>
    /\ called = 1 /\ ret = "nil"

(***************************************************************************)
(* Serving: Fastglue.ListenAndServe and ListenServeAndWaitGracefully       *)
(* (src/fastglue.go).  The caller's goroutine and the two goroutines the   *)
(* function starts take their steps in any order.  fasthttp's server is    *)
(* modelled by what the comment on Fastglue.Shutdown says of it: Shutdown  *)
(* closes the open listeners, Serve and ListenAndServe then return nil,    *)
(* and Shutdown waits until no connection is active.                       *)
(***************************************************************************)

\* A nil *fasthttp.Server.
NoServer == "nil"

\* ListenServeAndWaitGracefully has not returned.
NotReturned == <<"not returned">>

errNeither == <<"specify either a TCP address or a UNIX socket">>

errBoth == <<"specify either a TCP address or a UNIX socket, not both">>

\* The error of a listener that cannot be opened (net.Listen).
errListen == <<"listen: address already in use">>

\* The error of a listener that cannot be closed, which Shutdown returns.
errClose == <<"close: listener">>

\* A server that has not been started.
NewServer == [ln |-> "none", handler |-> FALSE, open |-> 0, answered |-> 0, aborted |-> 0]

\* The server has an open listener: one it opened for a TCP address or a
\* UNIX socket, or the one given to Serve.
Listening(sv_) == sv_.ln \in {"tcp", "unix", "given"}

\* Checks that refuse the empty pair only.
checkNeitherOnly(address, socket) ==
    IF address = "" /\ socket = "" THEN errNeither ELSE NoError

\* The two checks ListenAndServe starts with.
checkEither(address, socket) ==
    IF address = "" /\ socket = "" THEN errNeither
    ELSE IF address # "" /\ socket # "" THEN errBoth
    ELSE NoError

\* Fastglue.ListenAndServe up to the point where it serves: the error it
\* returns at once, or the server it assigned to f.Server with its handler
\* and listener.  listens: whether the listener can be opened.
ListenAndServe(address, socket, s, fs, sv_, listens) ==
    LET e == checkEither(address, socket)
        server == IF s = NoServer THEN "default" ELSE s
    IN  IF e # NoError THEN [err |-> e, Server |-> fs, srv |-> sv_]
        ELSE IF ~listens
        THEN [err |-> errListen, Server |-> server, srv |-> [sv_ EXCEPT !.handler = TRUE]]
        ELSE [err |-> NoError, Server |-> server,
              srv |-> [sv_ EXCEPT !.handler = TRUE,
                                  !.ln = IF socket # "" THEN "unix" ELSE "tcp"]]

\* The process is running: no goroutine has panicked.
Alive == gor.main # "crashed"

MaxSignals == 2

MaxRequests == 2

Addresses == {"", ":8080"}

Sockets == {"", "/tmp/fastglue.sock"}

ChanCaps == {0, 1}

\* f.ListenServeAndWaitGracefully(address, socket, s, shutdownServer) has
\* made errChan and started both goroutines.
InitServe ==
    /\ call \in [address : Addresses, socket : Sockets, s : {NoServer, "s"}, cap : ChanCaps]
    /\ f_Server = NoServer
    /\ srv = NewServer
    /\ shutdownServer = [buf |-> 0, closed |-> FALSE, closes |-> 0]
    /\ errChan = <<>>
    /\ gor = [main |-> "wait", g1 |-> "range", g2 |-> "start", shut |-> NoError, err |-> NoError,
              recv |-> NoError]
    /\ result = NotReturned
    /\ hist = [signals |-> 0, whileServing |-> FALSE, shutdowns |-> <<>>]
    /\ DownIdle
    /\ args = <<>>
    /\ obj = <<>>
    /\ old = <<>>
    /\ fieldTag = ""
    /\ fields = <<>>
    /\ err = NoError
    /\ pc = "idle"
    /\ sv = SvIdle
    /\ target = NoTarget
    /\ mem = {}
    /\ NestIdle
    /\ GlueIdle
    /\ ParamIdle
    /\ MoreIdle

\* The second goroutine calls f.ListenAndServe, which fails or serves.
StartServer(listens) ==
    /\ Alive
    /\ gor.g2 = "start"
    /\ LET r == ListenAndServe(call.address, call.socket, call.s, f_Server, srv, listens)
       IN  /\ f_Server' = r.Server
           /\ srv' = r.srv
           /\ gor' = [gor EXCEPT !.g2 = IF r.err # NoError THEN "send" ELSE "serving",
                                 !.err = r.err]
    /\ UNCHANGED <<call, shutdownServer, errChan, result, hist, bindVars, glueVars, paramVars, downVars, moreVars>>

\* errChan <- err, for the error ListenAndServe returned.
SendStartError ==
    /\ Alive
    /\ gor.g2 = "send"
    /\ Len(errChan) < 1
    /\ errChan' = Append(errChan, gor.err)
    /\ gor' = [gor EXCEPT !.g2 = "exited"]
    /\ UNCHANGED <<call, f_Server, srv, shutdownServer, result, hist, bindVars, glueVars, paramVars, downVars, moreVars>>

\* The listeners were closed: ListenAndServe returns nil, nothing is sent.
ServerReturns ==
    /\ Alive
    /\ gor.g2 = "serving"
    /\ srv.ln = "closed"
    /\ gor' = [gor EXCEPT !.g2 = "exited"]
    /\ UNCHANGED <<call, f_Server, srv, shutdownServer, errChan, result, hist, bindVars, glueVars, paramVars, downVars, moreVars>>

\* A request arrives on the open listener.
Accept ==
    /\ Alive
    /\ Listening(srv)
    /\ srv.open + srv.answered < MaxRequests
    /\ srv' = [srv EXCEPT !.open = @ + 1]
    /\ UNCHANGED <<call, f_Server, shutdownServer, errChan, gor, result, hist, bindVars, glueVars, paramVars, downVars, moreVars>>

\* A request in flight gets its response.
Respond ==
    /\ Alive
    /\ srv.open > 0
    /\ srv' = [srv EXCEPT !.open = @ - 1, !.answered = @ + 1]
    /\ UNCHANGED <<call, f_Server, shutdownServer, errChan, gor, result, hist, bindVars, glueVars, paramVars, downVars, moreVars>>

\* shutdownServer <- struct{}{} by the caller's side.  An unbuffered channel
\* takes the value when the first goroutine is ready to receive it.
Signal ==
    /\ Alive
    /\ hist.signals < MaxSignals
    /\ ~shutdownServer.closed
    /\ shutdownServer.buf = 0
    /\ call.cap = 1 \/ gor.g1 = "range"
    /\ shutdownServer' = [shutdownServer EXCEPT !.buf = 1]
    /\ hist' = [hist EXCEPT !.signals = @ + 1,
                            !.whileServing = @ \/ (gor.g2 = "serving" /\ Listening(srv))]
    /\ UNCHANGED <<call, f_Server, srv, errChan, gor, result, bindVars, glueVars, paramVars, downVars, moreVars>>

\* s.Shutdown() as the first goroutine calls it, up to its wait: a nil s
\* panics and ends the process with the requests in flight; a server without
\* listeners returns nil; else the listeners are closed, or Shutdown returns
\* the error of closing one.
shutdown(s, sv_, g, h, closes) ==
    IF s = NoServer
    THEN [srv |-> [sv_ EXCEPT !.aborted = sv_.open, !.open = 0],
          gor |-> [g EXCEPT !.main = "crashed"], hist |-> h]
    ELSE IF ~Listening(sv_)
    THEN [srv |-> sv_, gor |-> [g EXCEPT !.g1 = "send", !.shut = NoError], hist |-> h]
    ELSE IF ~closes
    THEN [srv |-> sv_, gor |-> [g EXCEPT !.g1 = "send", !.shut = errClose],
          hist |-> [h EXCEPT !.shutdowns = Append(@, errClose)]]
    ELSE [srv |-> [sv_ EXCEPT !.ln = "closed"], gor |-> [g EXCEPT !.g1 = "shutdown"], hist |-> h]

\* for range shutdownServer receives a value: the channel has room for the
\* next one, and the goroutine is about to call s.Shutdown().
Receive ==
    /\ Alive
    /\ gor.g1 = "range"
    /\ shutdownServer.buf > 0
    /\ shutdownServer' = [shutdownServer EXCEPT !.buf = 0]
    /\ gor' = [gor EXCEPT !.g1 = "call"]
    /\ UNCHANGED <<call, f_Server, srv, errChan, result, hist, bindVars, glueVars, paramVars, downVars, moreVars>>

\* The first goroutine calls s.Shutdown(), on the server as it is by then.
ServerShutdown(closes) ==
    /\ Alive
    /\ gor.g1 = "call"
    /\ LET r == shutdown(call.s, srv, gor, hist, closes)
       IN  srv' = r.srv /\ gor' = r.gor /\ hist' = r.hist
    /\ UNCHANGED <<call, f_Server, shutdownServer, errChan, result, bindVars, glueVars, paramVars, downVars, moreVars>>

\* No connection is active any more: Shutdown returns nil.
ShutdownDone ==
    /\ Alive
    /\ gor.g1 = "shutdown"
    /\ srv.open = 0
    /\ gor' = [gor EXCEPT !.g1 = "send", !.shut = NoError]
    /\ hist' = [hist EXCEPT !.shutdowns = Append(@, NoError)]
    /\ UNCHANGED <<call, f_Server, srv, shutdownServer, errChan, result, bindVars, glueVars, paramVars, downVars, moreVars>>

\* errChan <- s.Shutdown(), and the loop goes on.
SendShutdown ==
    /\ Alive
    /\ gor.g1 = "send"
    /\ Len(errChan) < 1
    /\ errChan' = Append(errChan, gor.shut)
    /\ gor' = [gor EXCEPT !.g1 = "range"]
    /\ UNCHANGED <<call, f_Server, srv, shutdownServer, result, hist, bindVars, glueVars, paramVars, downVars, moreVars>>

\* for range shutdownServer ends on the closed and drained channel.
RangeEnds ==
    /\ Alive
    /\ gor.g1 = "range"
    /\ shutdownServer.buf = 0
    /\ shutdownServer.closed
    /\ gor' = [gor EXCEPT !.g1 = "exited"]
    /\ UNCHANGED <<call, f_Server, srv, shutdownServer, errChan, result, hist, bindVars, glueVars, paramVars, downVars, moreVars>>

\* for err := range errChan receives a value: errChan has room again, and
\* the caller's goroutine is about to close shutdownServer.
ReceiveError ==
    /\ Alive
    /\ gor.main = "wait"
    /\ errChan # <<>>
    /\ errChan' = Tail(errChan)
    /\ gor' = [gor EXCEPT !.main = "close", !.recv = Head(errChan)]
    /\ UNCHANGED <<call, f_Server, srv, shutdownServer, result, hist, bindVars, glueVars, paramVars, downVars, moreVars>>

\* A return that leaves shutdownServer open.
ReturnWithoutClose ==
    /\ Alive
    /\ gor.main = "close"
    /\ result' = gor.recv
    /\ gor' = [gor EXCEPT !.main = "returned"]
    /\ UNCHANGED <<call, f_Server, srv, shutdownServer, errChan, hist, bindVars, glueVars, paramVars, downVars, moreVars>>

\* close(shutdownServer); return err.
Return ==
    /\ Alive
    /\ gor.main = "close"
    /\ shutdownServer' = [shutdownServer EXCEPT !.closed = TRUE, !.closes = @ + 1]
    /\ result' = gor.recv
    /\ gor' = [gor EXCEPT !.main = "returned"]
    /\ UNCHANGED <<call, f_Server, srv, errChan, hist, bindVars, glueVars, paramVars, downVars, moreVars>>

NextServe ==
    \/ \E listens \in BOOLEAN : StartServer(listens)
    \/ SendStartError
    \/ ServerReturns
    \/ Accept
    \/ Respond
    \/ Signal
    \/ Receive
    \/ \E closes \in BOOLEAN : ServerShutdown(closes)
    \/ ShutdownDone
    \/ SendShutdown
    \/ RangeEnds
    \/ ReceiveError
    \/ Return

\* The goroutines and the requests in flight are scheduled fairly; nothing
\* obliges a client to send a request or the caller to send a signal.
Progress ==
    /\ WF_vars(\E listens \in BOOLEAN : StartServer(listens))
    /\ WF_vars(SendStartError)
    /\ WF_vars(ServerReturns)
    /\ WF_vars(Respond)
    /\ WF_vars(Receive)
    /\ WF_vars(\E closes \in BOOLEAN : ServerShutdown(closes))
    /\ WF_vars(ShutdownDone)
    /\ WF_vars(SendShutdown)
    /\ WF_vars(RangeEnds)
    /\ WF_vars(ReceiveError)
    /\ WF_vars(Return)

SpecServe == InitServe /\ [][NextServe]_vars /\ Progress

(***************************************************************************)
(* Specification SpecShutdown: calls of f.Serve(ln, s), each in a          *)
(* goroutine of its own, and one call f.Shutdown(s, shutdownComplete),     *)
(* among servers that may have been started without the Fastglue and may   *)
(* have requests in flight.  f.Server is nil until the Fastglue serves.    *)
(***************************************************************************)
ServerNames == {"a", "b"}

\* The servers of the caller and the default one of Serve.
AllServers == ServerNames \cup {"default"}

\* The server a name stands for; a nil server has no state.
serverOf(all, name) == IF name = NoServer THEN NewServer ELSE all[name]

\* f.Serve(ln, s) up to its call of s.Serve(ln): the server it assigned to
\* f.Server, with its handler; the listener is not registered yet.
ServeListener(s, all) ==
    LET server == IF s = NoServer THEN "default" ELSE s
    IN  [Server |-> server,
         servers |-> [all EXCEPT ![server].handler = TRUE, ![server].ln = "pending"]]

InitShutdown ==
    /\ \E started \in SUBSET ServerNames :
         servers = [n \in AllServers |->
                       IF n \in started
                       THEN [NewServer EXCEPT !.ln = "tcp", !.handler = TRUE]
                       ELSE NewServer]
    /\ f_Server = NoServer
    /\ call \in [s : AllServers \cup {NoServer}]
    /\ gor = [main |-> "wait", g1 |-> "call", shut |-> NoError, on |-> NoServer]
    /\ hist = [shutdowns |-> <<>>]
    /\ shutdownComplete = <<>>
    /\ srv = <<>>
    /\ shutdownServer = <<>>
    /\ errChan = <<>>
    /\ result = NotReturned
    /\ args = <<>>
    /\ obj = <<>>
    /\ old = <<>>
    /\ fieldTag = ""
    /\ fields = <<>>
    /\ err = NoError
    /\ pc = "idle"
    /\ sv = SvIdle
    /\ target = NoTarget
    /\ mem = {}
    /\ NestIdle
    /\ GlueIdle
    /\ ParamIdle
    /\ MoreIdle

\* The server the call shuts down: f.Server, whatever s is.
shutdownTarget(s, fs) == fs

\* f.Shutdown(s, shutdownComplete) calls f.Server.Shutdown(), on the
\* server f.Server is at that moment.
CallShutdown(closes) ==
    /\ Alive
    /\ gor.g1 = "call"
    /\ LET which == shutdownTarget(call.s, f_Server)
           r == shutdown(which, serverOf(servers, which), gor, hist, closes)
       IN  /\ servers' = IF which = NoServer THEN servers
                         ELSE [servers EXCEPT ![which] = r.srv]
           /\ gor' = [r.gor EXCEPT !.on = which]
           /\ hist' = r.hist
    /\ UNCHANGED <<call, f_Server, srv, shutdownServer, errChan, result, shutdownComplete,
                   bindVars, glueVars, paramVars, moreVars>>

\* No connection of the server is active any more: its Shutdown returns nil.
ShutdownReturns ==
    /\ Alive
    /\ gor.g1 = "shutdown"
    /\ serverOf(servers, gor.on).open = 0
    /\ gor' = [gor EXCEPT !.g1 = "send", !.shut = NoError]
    /\ hist' = [hist EXCEPT !.shutdowns = Append(@, NoError)]
    /\ UNCHANGED <<call, f_Server, srv, shutdownServer, errChan, result, downVars,
                   bindVars, glueVars, paramVars, moreVars>>

\* shutdownComplete <- f.Server.Shutdown(), received by the caller's side.
SendComplete ==
    /\ Alive
    /\ gor.g1 = "send"
    /\ shutdownComplete' = Append(shutdownComplete, gor.shut)
    /\ gor' = [gor EXCEPT !.g1 = "done"]
    /\ UNCHANGED <<call, f_Server, srv, shutdownServer, errChan, result, hist, servers,
                   bindVars, glueVars, paramVars, moreVars>>

\* s.Serve(ln) inside f.Serve registers the listener and serves on it.
ServeRegisters(name) ==
    /\ Alive
    /\ servers[name].ln = "pending"
    /\ servers' = [servers EXCEPT ![name].ln = "given"]
    /\ UNCHANGED <<call, f_Server, srv, shutdownServer, errChan, gor, result, hist,
                   shutdownComplete, bindVars, glueVars, paramVars, moreVars>>

\* go f.Serve(ln, s), for a server that has not been started, up to its
\* call of s.Serve(ln).
CallServe(s) ==
    /\ Alive
    /\ serverOf(servers, IF s = NoServer THEN "default" ELSE s).ln = "none"
    /\ LET r == ServeListener(s, servers)
       IN  f_Server' = r.Server /\ servers' = r.servers
    /\ UNCHANGED <<call, srv, shutdownServer, errChan, gor, result, hist,
                   shutdownComplete, bindVars, glueVars, paramVars, moreVars>>

\* A request arrives at a listening server.
Arrive(name) ==
    /\ Alive
    /\ Listening(servers[name])
    /\ servers[name].open + servers[name].answered < MaxRequests
    /\ servers' = [servers EXCEPT ![name].open = @ + 1]
    /\ UNCHANGED <<call, f_Server, srv, shutdownServer, errChan, gor, result, hist,
                   shutdownComplete, bindVars, glueVars, paramVars, moreVars>>

\* A request in flight gets its response.
Finish(name) ==
    /\ Alive
    /\ servers[name].open > 0
    /\ servers' = [servers EXCEPT ![name].open = @ - 1, ![name].answered = @ + 1]
    /\ UNCHANGED <<call, f_Server, srv, shutdownServer, errChan, gor, result, hist,
                   shutdownComplete, bindVars, glueVars, paramVars, moreVars>>

NextShutdown ==
    \/ \E closes \in BOOLEAN : CallShutdown(closes)
    \/ ShutdownReturns
    \/ SendComplete
    \/ \E s \in ServerNames \cup {NoServer} : CallServe(s)
    \/ \E name \in AllServers : ServeRegisters(name)
    \/ \E name \in AllServers : Arrive(name)
    \/ \E name \in AllServers : Finish(name)

SpecShutdown == InitShutdown /\ [][NextShutdown]_vars

(***************************************************************************)
(* The mock server (src/mock.go, and the second copy of the file in        *)
(* src/unnamed/part_001, whose handler looks the response up under the     *)
(* method and the URI).                                                    *)
(***************************************************************************)
MockMethods == {"GET", "POST"}

MockURIs == {"/test", "/test2"}

MockResponse(code, contentType, body) ==
    [StatusCode |-> code, ContentType |-> contentType, Body |-> body]

MockResponses ==
    {MockResponse(0, "", "hello world"), MockResponse(201, "application/json", "{}"),
     MockResponse(0, "text/html", ""), MockResponse(202, "", "")}

\* What the handler wrote: the status code, the content type, the body.
Written(code, contentType, body) == [code |-> code, contentType |-> contentType, body |-> body]

\* The content type net/http detects from a body of text when the handler
\* set none before WriteHeader.
detected == "text/plain; charset=utf-8"

\* The registered response as it is written: status 200 for a zero code.
\* The Content-Type header is set after WriteHeader, which is too late for
\* it to be sent; a body that is written has its type detected, and
\* without a body nothing is written and no content type is sent.
writeOut(out) ==
    Written(IF out.StatusCode = 0 THEN 200 ELSE out.StatusCode,
            IF Len(out.Body) > 0 THEN detected ELSE "", out.Body)

notFound == Written(404, detected, "not found")

methodNotAllowed == Written(405, detected, "method not allowed")

\* The handler of NewMockServer in src/mock.go: both lookups are made under
\* the request URI.
handlerFunc(h, method, uri) ==
    IF uri \notin DOMAIN h THEN notFound
    ELSE IF uri \notin DOMAIN h THEN methodNotAllowed
    ELSE writeOut(h[uri])

\* The handler of NewMockServer in src/unnamed/part_001: the second lookup
\* is made under method and URI.
handlerFuncByMethod(h, method, uri) ==
    IF uri \notin DOMAIN h THEN notFound
    ELSE IF (method \o uri) \notin DOMAIN h THEN methodNotAllowed
    ELSE writeOut(h[method \o uri])

\* m.handles[key] = r; m.handles[uri] = r
register(h, method, uri, r) ==
    [k \in DOMAIN h \cup {method \o uri, uri} |->
        IF k \in {method \o uri, uri} THEN r ELSE h[k]]

\* NewMockServer(), of either copy of the file.
InitMock ==
    /\ handles = <<>>
    /\ \E file \in {"src/mock.go", "src/unnamed/part_001"} :
         mock = [file |-> file, registered |-> {}, pc |-> "idle",
                 method |-> "", uri |-> "", written |-> notFound]
    /\ dec = <<>>
    /\ auth = <<>>
    /\ args = <<>>
    /\ obj = <<>>
    /\ old = <<>>
    /\ fieldTag = ""
    /\ fields = <<>>
    /\ err = NoError
    /\ pc = "idle"
    /\ sv = SvIdle
    /\ target = NoTarget
    /\ mem = {}
    /\ NestIdle
    /\ GlueIdle
    /\ ParamIdle
    /\ SrvIdle

\* m.Handle(method, uri, r); a second registration of a method and URI
\* panics.
MockHandle(method, uri, r) ==
    /\ (method \o uri) \notin DOMAIN handles
    /\ handles' = register(handles, method, uri, r)
    /\ mock' = [mock EXCEPT !.registered = @ \cup {<<method, uri, r>>}, !.pc = "idle"]
    /\ UNCHANGED <<dec, auth, bindVars, glueVars, paramVars, srvVars>>

\* m.Reset(), which the copy of src/unnamed/part_001 has: the registered
\* responses are dropped.
MockReset ==
    /\ mock.file = "src/unnamed/part_001"
    /\ handles' = <<>>
    /\ mock' = [mock EXCEPT !.registered = {}, !.pc = "idle"]
    /\ UNCHANGED <<dec, auth, bindVars, glueVars, paramVars, srvVars>>

\* A request of the method for the URI is sent to m.URL().
MockRequest(method, uri) ==
    /\ mock' = [mock EXCEPT !.pc = "served", !.method = method, !.uri = uri,
                  !.written = IF mock.file = "src/mock.go"
                              THEN handlerFunc(handles, method, uri)
                              ELSE handlerFuncByMethod(handles, method, uri)]
    /\ UNCHANGED <<handles, dec, auth, bindVars, glueVars, paramVars, srvVars>>

NextMock ==
    \/ \E method \in MockMethods : \E uri \in MockURIs : \E r \in MockResponses :
         MockHandle(method, uri, r)
    \/ MockReset
    \/ \E method \in MockMethods : \E uri \in MockURIs : MockRequest(method, uri)

SpecMock == InitMock /\ [][NextMock]_vars

(***************************************************************************)
(* Request.ParseAuthHeader (src/fastglue.go).                              *)
(***************************************************************************)
\* AuthBasic = 1 << iota, the fourth constant of its block (iota is 3).
AuthBasic == 2 ^ 3

AuthToken == 2

authBasic == "Basic"

authToken == "token"

errBase64 == <<"invalid Base64 value in Basic Authorization header">>

errUnknownScheme == <<"unknown authorization scheme">>

\* The message, in its pieces: key and token stand between backquotes.
errKeyToken == <<"authorization value should be ", "key", ":", "token">>

\* The alphabet of base64.StdEncoding; a character's value is its position
\* less one.
encodeStd == "ABCDEFGHIJKLMNOPQRSTUVWXYZabcdefghijklmnopqrstuvwxyz0123456789+/"

\* The characters of the codes 32 to 126.  The backquote, code 96, cannot be
\* written in a string and is outside the modelled alphabet.
Printable == " !\"#$%&'()*+,-./0123456789:;<=>?@ABCDEFGHIJKLMNOPQRSTUVWXYZ[\\]^_?abcdefghijklmnopqrstuvwxyz{|}~"

b64Value(c) ==
    LET at == {i \in 1..Len(encodeStd) : Char(encodeStd, i) = c}
    IN  IF at = {} THEN -1 ELSE Min(at) - 1

byteChar(code) == IF code \in 32..126 THEN Char(Printable, code - 31) ELSE "?"

\* One group of four characters: three bytes, or two or one before padding.
\* last: the group is the last one, where padding may stand.
decodeQuantum(q, last) ==
    LET v == [i \in 1..4 |-> b64Value(Char(q, i))]
        pad2 == last /\ SubSeq(q, 3, 4) = "=="
        pad1 == last /\ ~pad2 /\ Char(q, 4) = "="
        need == IF pad2 THEN 2 ELSE IF pad1 THEN 3 ELSE 4
        n == v[1] * 262144 + v[2] * 4096
               + (IF need >= 3 THEN v[3] * 64 ELSE 0) + (IF need = 4 THEN v[4] ELSE 0)
    IN  IF \E i \in 1..need : v[i] < 0 THEN [ok |-> FALSE, v |-> ""]
        ELSE [ok |-> TRUE,
              v |-> byteChar(n \div 65536)
                      \o (IF need >= 3 THEN byteChar((n \div 256) % 256) ELSE "")
                      \o (IF need = 4 THEN byteChar(n % 256) ELSE "")]

\* base64.StdEncoding.DecodeString(s): padded groups of four characters.
RECURSIVE decodeFrom(_, _, _)
decodeFrom(s, i, acc) ==
    IF i > Len(s) THEN [ok |-> TRUE, v |-> acc]
    ELSE LET q == decodeQuantum(SubSeq(s, i, i + 3), i + 3 = Len(s))
         IN  IF ~q.ok THEN [ok |-> FALSE, v |-> ""]
             ELSE decodeFrom(s, i + 4, acc \o q.v)

\* The decoder passes by the characters \r and \n.
RECURSIVE withoutNewlines(_)
withoutNewlines(s) ==
    IF s = "" THEN ""
    ELSE (IF Char(s, 1) \in {"\r", "\n"} THEN "" ELSE Char(s, 1))
            \o withoutNewlines(SubSeq(s, 2, Len(s)))

DecodeString(s) ==
    IF Len(withoutNewlines(s)) % 4 # 0 THEN [ok |-> FALSE, v |-> ""]
    ELSE decodeFrom(withoutNewlines(s), 1, "")

HasPrefix(s, prefix) == Len(s) >= Len(prefix) /\ SubSeq(s, 1, Len(prefix)) = prefix

\* bytes.Trim(s, " ")
Trim(s) ==
    LET keep == {i \in 1..Len(s) : Char(s, i) # " "}
    IN  IF keep = {} THEN ""
        ELSE SubSeq(s, Min(keep), CHOOSE i \in keep : \A j \in keep : j <= i)

\* A split at every delimiter.
splitAll(s) ==
    LET at == {i \in 1..Len(s) : Char(s, i) = ":"}
        cut == [n \in 0..(Len(s) + 1) |-> n \in at \/ n = 0 \/ n = Len(s) + 1]
        starts == {i \in 0..Len(s) : cut[i]}
        nth(k) == CHOOSE i \in starts : Cardinality({j \in starts : j < i}) = k - 1
    IN  [k \in 1..Cardinality(starts) |->
            SubSeq(s, nth(k) + 1, Min({j \in (nth(k) + 1)..(Len(s) + 1) : cut[j]}) - 1)]

\* bytes.SplitN(s, delim, 2) for delim ":": s alone when it holds no
\* delimiter, else what stands before and after the first one.
SplitN(s) ==
    IF IndexAny(s, {":"}) = 0 THEN <<s>>
    ELSE <<before(s, IndexAny(s, {":"})), after(s, IndexAny(s, {":"}))>>

\* A flag test that any flag satisfies.
hasAnyScheme(schemes, flag) == schemes # 0

\* schemes&flag != 0, for a flag of one bit.
hasScheme(schemes, flag) == (schemes \div flag) % 2 = 1

AuthResult(key, token, e) == [key |-> key, token |-> token, err |-> e]

\* The end of ParseAuthHeader, once the pair is there.
pairResult(pair) ==
    IF Len(pair) # 2 THEN AuthResult(Nil, Nil, errKeyToken)
    ELSE AuthResult(pair[1], pair[2], NoError)

\* The Basic branch once the payload was decoded.
basicResult(payload) ==
    IF ~payload.ok THEN AuthResult(Nil, Nil, errBase64) ELSE pairResult(SplitN(payload.v))

\* r.ParseAuthHeader(schemes), for the Authorization header h ("" when the
\* request has none).
ParseAuthHeader(schemes, h) ==
    IF hasScheme(schemes, AuthBasic) /\ HasPrefix(h, authBasic)
    THEN basicResult(DecodeString(Trim(SubSeq(h, Len(authBasic) + 1, Len(h)))))
    ELSE IF hasScheme(schemes, AuthToken) /\ HasPrefix(h, authToken)
    THEN pairResult(SplitN(Trim(SubSeq(h, Len(authToken) + 1, Len(h)))))
    ELSE AuthResult(Nil, Nil, errUnknownScheme)

(***************************************************************************)
(* Specification SpecAuth: ParseAuthHeader is called once, with any of the *)
(* scheme sets on a request with any of the headers.                       *)
(***************************************************************************)
\* Scheme sets: none, a bit of neither scheme, either scheme, both, all bits.
SchemeSets == {0, 1, AuthToken, AuthBasic, AuthBasic + AuthToken, 255}

\* Authorization headers with the credential each one carries (Nil: none
\* that can be read).
AuthHeaders ==
    { <<"", Nil>>,
      <<"Basic dXNlcjpwYXNz", "user:pass">>,
      <<"Basic YTpiOmM=", "a:b:c">>,
      <<"Basic bm9jb2xvbg==", "nocolon">>,
      <<"Basic   dXNlcjpwYXNz ", "user:pass">>,
      <<"Basic Og==", ":">>,
      <<"Basic !!!!", Nil>>,
      <<"Basic YTpiOmM", Nil>>,
      <<"Basic", "">>,
      <<"basic dXNlcjpwYXNz", Nil>>,
      <<"token key:tok", "key:tok">>,
      <<"token a:b:c", "a:b:c">>,
      <<"token nocolon", "nocolon">>,
      <<"token   key:tok  ", "key:tok">>,
      <<"token :", ":">>,
      <<"token", "">>,
      <<"Token key:tok", Nil>>,
      <<"Bearer abc", Nil>> }

InitAuth ==
    /\ \E schemes \in SchemeSets : \E h \in AuthHeaders :
         auth = [schemes |-> schemes, header |-> h[1], credential |-> h[2],
                 pc |-> "call", out |-> AuthResult(Nil, Nil, NoError)]
    /\ handles = <<>>
    /\ mock = <<>>
    /\ dec = <<>>
    /\ args = <<>>
    /\ obj = <<>>
    /\ old = <<>>
    /\ fieldTag = ""
    /\ fields = <<>>
    /\ err = NoError
    /\ pc = "idle"
    /\ sv = SvIdle
    /\ target = NoTarget
    /\ mem = {}
    /\ NestIdle
    /\ GlueIdle
    /\ ParamIdle
    /\ SrvIdle

\* key, token, err := r.ParseAuthHeader(schemes)
CallParseAuthHeader ==
    /\ auth.pc = "call"
    /\ auth' = [auth EXCEPT !.pc = "done", !.out = ParseAuthHeader(auth.schemes, auth.header)]
    /\ UNCHANGED <<handles, mock, dec, bindVars, glueVars, paramVars, srvVars>>

SpecAuth == InitAuth /\ [][CallParseAuthHeader]_vars

(***************************************************************************)
(* Specification SpecDecode: Request.DecodeFail on a request with a        *)
(* content type and a post body.  The body is kept in the form its parser  *)
(* reads it in: the pairs of a form body, or the members of the object of  *)
(* a JSON body or the child elements of the root of an XML body, in        *)
(* order, with whether the text is well-formed.  encoding/json checks the  *)
(* whole text before it stores a value and goes on after a value of the    *)
(* wrong type; encoding/xml stores as it reads and stops at the first      *)
(* error.  The bodies name no field of a pointer type or of a slice type   *)
(* other than []byte, and an XML root holds child elements only, no text   *)
(* of its own.  A map is a map[string]interface{}.  The texts are ASCII:   *)
(* the white space a value is trimmed of is the white space of ASCII.      *)
(***************************************************************************)
constJSON == "json"

constXML == "xml"

\* fasthttp parses the post arguments of a request of this content type only.
strPostArgsContentType == "application/x-www-form-urlencoded"

\* bytes.Contains(b, sub)
Contains(b, sub) ==
    \E i \in 1..(Len(b) - Len(sub) + 1) : SubSeq(b, i, i + Len(sub) - 1) = sub

UpperLetters == "ABCDEFGHIJKLMNOPQRSTUVWXYZ"

LowerLetters == "abcdefghijklmnopqrstuvwxyz"

foldChar(c) ==
    IF \E i \in 1..26 : Char(UpperLetters, i) = c
    THEN Char(LowerLetters, CHOOSE i \in 1..26 : Char(UpperLetters, i) = c)
    ELSE c

\* strings.EqualFold on ASCII text.
EqualFold(a, b) ==
    Len(a) = Len(b) /\ \A i \in 1..Len(a) : foldChar(Char(a, i)) = foldChar(Char(b, i))

\* A member of a JSON object or a child element of an XML root: its name,
\* the type of its value ("string" or "number"; an element holds text) and
\* the text of the value.
Member(name, type, text) == [name |-> name, t |-> type, v |-> text]

Body(kind, members, wellformed) ==
    [kind |-> kind, members |-> members, wellformed |-> wellformed]

\* The error of json.Unmarshal or xml.Unmarshal on text it cannot read.
errUnmarshal(parser) == <<parser, ": malformed body">>

\* The error of a value that does not fit the field.
errUnmarshalType(parser, m, fd) ==
    <<parser, ": cannot unmarshal ", m.v, " into field ", fd.name>>

\* The fields a JSON member name stands for: exported, named as the member
\* in any casing.
jsonFields(name) ==
    {i \in 1..Len(Fields) : Fields[i].exported /\ EqualFold(Fields[i].name, name)}

\* The fields an XML element name stands for: exported, of that very name.
xmlFields(name) ==
    {i \in 1..Len(Fields) : Fields[i].exported /\ Fields[i].name = name}

\* The value a field of the kind takes from the text of a JSON number, or
\* that there is none: the number has to fit the field.
numberFor(kind, pi, pu, pf) ==
    IF kind \in IntKinds
    THEN [ok |-> pi.ok /\ SetInt(kind, pi.v) = pi.v, v |-> pi.v]
    ELSE IF kind \in UintKinds
    THEN [ok |-> pu.ok /\ SetUint(kind, pu.v) = pu.v, v |-> pu.v]
    ELSE IF kind \in FloatKinds
    THEN [ok |-> pf.ok /\ ~IsInf(SetFloat(kind, pf.v)), v |-> SetFloat(kind, pf.v)]
    ELSE [ok |-> FALSE, v |-> 0]

\* encoding/json's literalStore: the value a field takes from a JSON
\* member.  A string goes into a string as it is and into a []byte as the
\* bytes its base64 text stands for; a number goes into a number it fits.
jsonValue(fd, m) ==
    IF fd.kind = "string" THEN [ok |-> m.t = "string", v |-> m.v]
    ELSE IF fd.kind = "slice" /\ fd.elem = "uint8" /\ m.t = "string" THEN DecodeString(m.v)
    ELSE IF m.t # "number" THEN [ok |-> FALSE, v |-> 0]
    ELSE numberFor(fd.kind, ParseInt(m.v), ParseUint(m.v), ParseFloat(m.v))

\* unicode.IsSpace, for the characters of ASCII text: tab, line feed,
\* vertical tab, form feed, carriage return and space.
IsSpace(c) == c \in {"\t", "\n", "\f", "\r", " ", ""}

\* strings.TrimSpace
TrimSpace(s) ==
    LET keep == {i \in 1..Len(s) : ~IsSpace(Char(s, i))}
    IN  IF keep = {} THEN ""
        ELSE SubSeq(s, Min(keep), CHOOSE i \in keep : \A j \in keep : j <= i)

\* encoding/xml's copyValue for text that is not empty, into a number or a
\* bool: the text is parsed at the width of the field; an infinity or a
\* NaN that was written as such is stored.
xmlNumber(kind, pi, pu, pb, pf) ==
    IF kind \in IntKinds
    THEN [ok |-> pi.ok /\ SetInt(kind, pi.v) = pi.v, v |-> pi.v]
    ELSE IF kind \in UintKinds
    THEN [ok |-> pu.ok /\ SetUint(kind, pu.v) = pu.v, v |-> pu.v]
    ELSE IF kind = "bool" THEN pb
    ELSE [ok |-> pf.ok /\ (IsInf(pf.v) \/ ~IsInf(SetFloat(kind, pf.v))),
          v |-> SetFloat(kind, pf.v)]

\* encoding/xml's copyValue(dst, src), for the field dst and the text src
\* of an element: the text for a string or a []byte, zero for a number or
\* a bool without text, the parsed text else; an error for another kind.
xmlValue(fd, m) ==
    IF fd.kind = "string" \/ (fd.kind = "slice" /\ fd.elem = "uint8")
    THEN [ok |-> TRUE, v |-> m.v]
    ELSE IF fd.kind \notin IntKinds \cup UintKinds \cup FloatKinds \cup {"bool"}
    THEN [ok |-> FALSE, v |-> 0]
    ELSE IF Len(m.v) = 0 THEN [ok |-> TRUE, v |-> Zero(fd.kind)]
    ELSE xmlNumber(fd.kind, ParseInt(TrimSpace(m.v)), ParseUint(TrimSpace(m.v)),
                   ParseBool(TrimSpace(m.v)), ParseFloat(TrimSpace(m.v)))

\* The decoding of the members of a JSON object from position i on: a
\* member no field stands for is passed by, a value that does not fit
\* leaves its field as it is and the first such error is returned at the
\* end.
RECURSIVE jsonFrom(_, _, _, _)
jsonFrom(members, i, ob, e) ==
    IF i > Len(members) THEN [obj |-> ob, err |-> e]
    ELSE IF jsonFields(members[i].name) = {} THEN jsonFrom(members, i + 1, ob, e)
    ELSE LET fd == Fields[CHOOSE k \in jsonFields(members[i].name) : TRUE]
             r  == jsonValue(fd, members[i])
         IN  IF r.ok THEN jsonFrom(members, i + 1, [ob EXCEPT ![fd.name] = r.v], e)
             ELSE jsonFrom(members, i + 1, ob,
                           IF e = NoError THEN errUnmarshalType(constJSON, members[i], fd)
                           ELSE e)

\* encoding/json's indirect, for json.Unmarshal(body, &v) and a v whose
\* reflect.Value is t: the kind that is decoded into.  v is an interface;
\* a pointer it holds is followed, and pointers behind it, to what is not
\* a pointer; when it holds no pointer that is not nil, the interface v
\* itself is decoded into ("v").
indirect(t) ==
    IF t.kind # "ptr" \/ t.elem = "invalid" THEN "v"
    ELSE IF t.elem = "ptr" THEN "struct"
    ELSE t.elem

\* The kind xml.Unmarshal(body, &v) decodes into: a pointer v holds is
\* followed, that one only.
xmlInto(t) ==
    IF t.kind # "ptr" \/ t.elem = "invalid" THEN "interface" ELSE t.elem

\* The error of an object that is decoded into a value of a scalar kind.
errUnmarshalObject(kind) == <<constJSON, ": cannot unmarshal object into Go value of type ", kind>>

\* The error of encoding/xml for a kind it has no case for.
errUnknownType(kind) == <<"unknown type ", kind>>

\* The value an interface takes from a JSON member: the text of a string,
\* the float64 of a number.
literalInterface(m) == IF m.t = "number" THEN ParseFloat(m.v).v ELSE m.v

\* encoding/json's objectInterface: the map of the members of an object,
\* the last member of a name giving its value.
objectInterface(members) ==
    [n \in {members[i].name : i \in 1..Len(members)} |->
        literalInterface(members[CHOOSE i \in 1..Len(members) :
                                   /\ members[i].name = n
                                   /\ \A j \in (i + 1)..Len(members) : members[j].name # n])]

\* json.Unmarshal(r.RequestCtx.PostBody(), &v): the object is stored in
\* the struct behind v, field by field, or as a map in the map or the
\* interface behind v; stored in v itself it leaves the target of the
\* caller alone; it fits no other kind.
jsonUnmarshal(body, t, ob) ==
    IF body.kind # "json" \/ ~body.wellformed
    THEN [obj |-> ob, err |-> errUnmarshal(constJSON)]
    ELSE IF indirect(t) = "struct" THEN jsonFrom(body.members, 1, ob, NoError)
    ELSE IF indirect(t) \in {"interface", "map"}
    THEN [obj |-> objectInterface(body.members), err |-> NoError]
    ELSE IF indirect(t) = "v" THEN [obj |-> ob, err |-> NoError]
    ELSE [obj |-> ob, err |-> errUnmarshalObject(indirect(t))]

\* The decoding of the child elements of an XML root from position i on:
\* it stops at the first value that does not fit; text that is not
\* well-formed is found out behind the last element.
RECURSIVE xmlFrom(_, _, _, _)
xmlFrom(members, i, ob, wellformed) ==
    IF i > Len(members)
    THEN [obj |-> ob, err |-> IF wellformed THEN NoError ELSE errUnmarshal(constXML)]
    ELSE IF xmlFields(members[i].name) = {} THEN xmlFrom(members, i + 1, ob, wellformed)
    ELSE LET fd == Fields[CHOOSE k \in xmlFields(members[i].name) : TRUE]
             r  == xmlValue(fd, members[i])
         IN  IF r.ok THEN xmlFrom(members, i + 1, [ob EXCEPT ![fd.name] = r.v], wellformed)
             ELSE [obj |-> ob, err |-> errUnmarshalType(constXML, members[i], fd)]

\* xml.Unmarshal(r.RequestCtx.PostBody(), &v): the root is stored in the
\* struct behind v; for an interface it is skipped; a number, a bool or a
\* string takes the text of the root, which is empty; other kinds, a
\* pointer behind the pointer among them, are unknown types.
xmlUnmarshal(body, t, ob) ==
    IF body.kind # "xml" THEN [obj |-> ob, err |-> errUnmarshal(constXML)]
    ELSE IF xmlInto(t) = "struct" THEN xmlFrom(body.members, 1, ob, body.wellformed)
    ELSE IF xmlInto(t) \in IntKinds \cup UintKinds \cup FloatKinds \cup {"bool", "string"}
    THEN IF body.wellformed THEN [obj |-> Zero(xmlInto(t)), err |-> NoError]
         ELSE [obj |-> ob, err |-> errUnmarshal(constXML)]
    ELSE IF xmlInto(t) = "interface"
    THEN [obj |-> ob, err |-> IF body.wellformed THEN NoError ELSE errUnmarshal(constXML)]
    ELSE [obj |-> ob, err |-> errUnknownType(xmlInto(t))]

\* r.RequestCtx.PostArgs(): the pairs of a form body of the form content
\* type.  Another body of that content type gives keys no field is
\* annotated with, which are left out.
PostArgs(ct, body, pairs) ==
    IF HasPrefix(ct, strPostArgsContentType) /\ body.kind = "form" THEN pairs ELSE <<>>

\* The error of the form branch, dropped.
formErrDropped(r) == NoError

\* _, err = ScanArgs(r.RequestCtx.PostArgs(), v, tag)
formErr(r) == r.err

\* fmt.Errorf("error decoding request: %v", err) for an error of a branch.
decoded(r, e) ==
    [err |-> IF e = NoError \/ e = Panic THEN e ELSE <<"error decoding request: ">> \o e,
     obj |-> r.obj]

decodeForm(r) == decoded(r, formErr(r))

decodeBody(r) == decoded(r, r.err)

\* r.Decode(v, tag): the error returned and the target after the call.
Decode(ct, body, pairs, t, ob, tag) ==
    IF Contains(ct, constJSON) THEN decodeBody(jsonUnmarshal(body, t, ob))
    ELSE IF Contains(ct, constXML) THEN decodeBody(xmlUnmarshal(body, t, ob))
    ELSE decodeForm(ScanArgs(PostArgs(ct, body, pairs), t, ob, tag))

\* DecodeFail once Decode returned d, on the response rs: the response,
\* the returned error and the target after the call.
decodeFailed(d, rs) ==
    IF d.err = Panic THEN [resp |-> rs, ret |-> Panic, obj |-> d.obj]
    ELSE IF d.err # NoError
    THEN [resp |-> SendErrorEnvelope(rs, 400,
                      <<"Error unmarshalling request: ">> \o d.err, excepBadRequest),
          ret |-> d.err, obj |-> d.obj]
    ELSE [resp |-> rs, ret |-> NoError, obj |-> d.obj]

\* r.DecodeFail(v, tag)
DecodeFail(ct, body, pairs, t, ob, tag, rs) ==
    decodeFailed(Decode(ct, body, pairs, t, ob, tag), rs)

MaxPostArgs == 2

MaxMembers == 2

ContentTypes == {"application/json", "application/xml", "text/xml; charset=utf-8",
                 strPostArgsContentType, ""}

DecodeKeys == {"str1", "int1", "int"}

\* The members of the bodies: names of fields in the casing of the
\* declaration and in lower case, and a name of no field; for the []byte
\* field, text that is base64 and text that is not.
Members ==
    {Member(name, "string", "abc") : name \in {"Str1", "int1"}}
        \cup {Member(name, "number", "30") : name \in {"Int1", "int1", "age"}}
        \cup {Member("Int1", "number", "1.5"), Member("Int1", "string", ""),
              Member("Int1", "string", "\t30\n"), Member("NaN", "string", "Inf"),
              Member("Bytes", "string", "YWJj"), Member("Bytes", "string", "abc")}

MemberSeqs(n) == UNION {[1..k -> Members] : k \in 0..n}

Bodies ==
    {Body("form", <<>>, TRUE)}
        \cup {Body(kind, members, wellformed) :
                kind \in {"json", "xml"}, members \in MemberSeqs(MaxMembers),
                wellformed \in BOOLEAN}

\* The v of r.DecodeFail(v, tag): a pointer to a struct, a pointer to a
\* pointer to one, a struct handed over by value, a pointer to an int, a
\* pointer to a map, nil.
DecodeTargets ==
    {PtrTo("struct"), PtrTo("ptr"), ValueOf("struct"), PtrTo("int"), PtrTo("map"), Invalid}

InitDecode ==
    /\ \E ct \in ContentTypes : \E body \in Bodies :
         dec = [ct |-> ct, body |-> body, pc |-> "call",
                resp |-> NewResponse, ret |-> NotReturned, tag |-> ""]
    /\ args = <<>>
    /\ target \in DecodeTargets
    /\ obj \in TargetContents(target)
    /\ old = obj
    /\ fieldTag = ""
    /\ fields = <<>>
    /\ err = NoError
    /\ pc = "build"
    /\ sv = SvIdle
    /\ mem = {}
    /\ handles = <<>>
    /\ mock = <<>>
    /\ auth = <<>>
    /\ NestIdle
    /\ GlueIdle
    /\ ParamIdle
    /\ SrvIdle

\* A pair more in the form body of the request.
AddDecodeArg(key, value) ==
    /\ dec.pc = "call"
    /\ dec.body.kind = "form"
    /\ Len(args) < MaxPostArgs
    /\ args' = Append(args, <<key, value>>)
    /\ UNCHANGED <<obj, old, fieldTag, fields, err, pc, sv, target, mem, nestVars,
                   glueVars, paramVars, srvVars, moreVars>>

\* err := r.DecodeFail(&obj, tag)
CallDecodeFail(tag) ==
    /\ dec.pc = "call"
    /\ LET out == DecodeFail(dec.ct, dec.body, args, target, obj, tag, dec.resp)
       IN  /\ dec' = [dec EXCEPT !.pc = IF out.ret = Panic THEN "panicked" ELSE "returned",
                                 !.resp = out.resp, !.ret = out.ret, !.tag = tag]
           /\ obj' = out.obj
    /\ old' = obj
    /\ fieldTag' = tag
    /\ UNCHANGED <<args, fields, err, pc, sv, target, mem, nestVars,
                   glueVars, paramVars, srvVars, handles, mock, auth>>

NextDecode ==
    \/ \E key \in DecodeKeys : \E value \in ArgValues(key) : AddDecodeArg(key, value)
    \/ \E tag \in Namespaces : CallDecodeFail(tag)

SpecDecode == InitDecode /\ [][NextDecode]_vars

(***************************************************************************)
(* Claims about serving                                                    *)
(***************************************************************************)

HasReturned == gor.main = "returned"

\* A value was sent on shutdownServer while the server was serving.
SignalledWhileServing == hist.whileServing

\* A Shutdown of the serving server has completed, and the function returned
\* its result.
ReturnedAfterShutdown ==
    /\ hist.shutdowns # <<>>
    /\ result = hist.shutdowns[1]

\* C20: when a value is sent on shutdownServer while
\* ListenServeAndWaitGracefully is serving, the function eventually returns;
\* when it has returned, Shutdown of the serving server has completed and its
\* result is what the function returned; and no request in flight is cut off.
C20_SignalShutsDownGracefully ==
    /\ SignalledWhileServing ~> HasReturned
    /\ [](SignalledWhileServing /\ HasReturned => ReturnedAfterShutdown)
    /\ [](SignalledWhileServing => srv.aborted = 0)

(***************************************************************************)
(* C28: a sequence field one of whose submitted values fails coercion      *)
(* holds, after the call, the value it held before the call: neither a     *)
(* partially filled sequence nor a sequence of zero values is assigned.    *)
(***************************************************************************)
C28_FailingSequenceUnchanged ==
    Done => \A i \in FieldIdx :
        (Matched(i) /\ IsSeq(i) /\ FailingAt(i) # {}) =>
            /\ err # NoError
            /\ Now(i) = Before(i)

\* Ints held three elements; its second submitted value fails after the
\* first one was coerced, and Ints still holds the three elements.
C28_Witness ==
    /\ Done /\ fieldTag = "url"
    /\ args = << <<"int", "123">>, <<"int", "abc">> >>
    /\ err # NoError /\ err[2] = "int"
    /\ old["Ints"] = <<1, 2, 3>> /\ obj["Ints"] = <<1, 2, 3>>

(***************************************************************************)
(* C29: ScanArgs leaves the argument multimap as it was, and once it has   *)
(* returned, rewriting or resetting the multimap changes no field of the   *)
(* target: a bound byte sequence is a copy of the submitted value.         *)
(***************************************************************************)
\* The pairs of the multimap a, their values read from its buffers.
multimap(a, m) == [k \in 1..Len(a) |-> <<a[k][1], SubSeq(m.heap[k], 1, Len(a[k][2]))>>]

C29_OnlyTheTargetAndItsOwnCopy ==
    [][/\ (pc = "build" /\ pc' \in {"done", "panicked"}) => args' = args
       /\ (pc = "build" /\ pc' = "done") => multimap(args', mem') = args
       /\ pc \in {"done", "reused"} => obj' = obj]_vars

\* Bytes was bound to the submitted value, the value was overwritten in the
\* buffer of the multimap afterwards, and Bytes, whose slice shows an array
\* of its own, still holds what was submitted.
C29_Witness ==
    /\ pc = "reused" /\ fieldTag = "url" /\ err = NoError
    /\ args = << <<"bytes", "zz">> >>
    /\ old["Bytes"] = "xyz" /\ obj["Bytes"] = "abc"
    /\ mem.heap[1] = "zzc" /\ mem.ref["Bytes"].addr > MaxArgs

(***************************************************************************)
(* C24: the after-middleware run only after the handler has returned, in   *)
(* registration order, whether the handler returned an error or nil; once  *)
(* an after-middleware returns nil the remaining ones do not run.          *)
(***************************************************************************)
\* The positions of the trace at which the handler ran.
HandlerAt == {n \in TraceIdx : trace[n].kind = "handler"}

\* The positions of the trace at which an after-middleware returned nil.
AfterNil == {n \in TraceIdx : trace[n].kind = "after" /\ trace[n].out = "nil"}

C24_AfterMiddlewareChain ==
    Routed =>
        /\ \A n \in TraceIdx : trace[n].kind = "after" =>
              LET k == trace[n].idx
              IN  /\ k \in 1..Len(f_after) /\ trace[n].name = f_after[k]
                  /\ n - k \in HandlerAt
                  /\ \A m \in 1..(k - 1) :
                       trace[n - k + m].kind = "after" /\ trace[n - k + m].idx = m
                         /\ trace[n - k + m].out = "req"
        /\ \A h \in HandlerAt :
              /\ \A n \in TraceIdx : trace[n].kind = "after" => n > h
              /\ f_after # <<>> => (Len(trace) > h /\ trace[h + 1].kind = "after")
              /\ AfterNil = {} => Len(trace) = h + Len(f_after)
        /\ \A n \in AfterNil : Len(trace) = n

\* The handler returned an error, the first after-middleware ran and
\* returned nil, the second one did not run.
C24_Witness ==
    /\ gpc = "serving" /\ f_before = <<>> /\ f_after = <<"m1", "m2">>
    /\ routes["POST"] = "h1"
    /\ trace = <<Event("handler", 0, "h1", "error"), Event("after", 1, "m1", "nil")>>

\* Both after-middleware ran, in registration order, after a handler that
\* returned nil.
C24_WitnessAll ==
    /\ gpc = "serving" /\ f_before = <<"m1">> /\ f_after = <<"m2", "m1">>
    /\ trace = <<Event("before", 1, "m1", "req"), Event("handler", 0, "h1", "nil"),
                 Event("after", 1, "m2", "req"), Event("after", 2, "m1", "req")>>

(***************************************************************************)
(* C23: ListenAndServe called with neither or with both of address and     *)
(* socket returns an error and has not assigned f.Server, installed a      *)
(* handler or opened a listener; called with exactly one of them, it       *)
(* assigns the server and its handler and the only listener it opens is    *)
(* the TCP one for an address, the UNIX one for a socket.                  *)
(***************************************************************************)
\* ListenAndServe was called.
Started == gor.g2 # "start"

ExactlyOne == (call.address = "") # (call.socket = "")

C23_EitherAddressOrSocket ==
    Started =>
        /\ ~ExactlyOne =>
             /\ gor.err \in {errNeither, errBoth}
             /\ f_Server = NoServer /\ ~srv.handler /\ srv.ln = "none"
        /\ ExactlyOne =>
             /\ f_Server # NoServer /\ srv.handler
             /\ gor.err \in {NoError, errListen}
             /\ gor.err = errListen <=> srv.ln = "none"
             /\ srv.ln \in {"none", "closed", IF call.socket # "" THEN "unix" ELSE "tcp"}

\* Both were given: the error was returned, and nothing was started.
C23_Witness ==
    /\ call.address = ":8080" /\ call.socket = "/tmp/fastglue.sock"
    /\ gor.g2 = "send" /\ gor.err = errBoth
    /\ f_Server = NoServer /\ srv = NewServer

\* A socket only: the server listens on the UNIX socket.
C23_WitnessSocket ==
    /\ call.address = "" /\ call.socket = "/tmp/fastglue.sock" /\ call.s = NoServer
    /\ gor.g2 = "serving" /\ srv.ln = "unix" /\ f_Server = "default"

(***************************************************************************)
(* C27: when ListenAndServe returns an error and no shutdown signal has    *)
(* been sent, ListenServeAndWaitGracefully returns that error, it has      *)
(* closed shutdownServer exactly once, and the goroutine that waits for    *)
(* shutdown signals then terminates.                                       *)
(***************************************************************************)
\* ListenAndServe returned an error.
StartFailed == Started /\ gor.err # NoError

NoSignal == hist.signals = 0

C27_StartFailureReturnsAndCleansUp ==
    /\ [](StartFailed /\ NoSignal /\ HasReturned =>
            /\ result = gor.err
            /\ shutdownServer.closed /\ shutdownServer.closes = 1)
    /\ (StartFailed /\ NoSignal) ~> (HasReturned \/ ~NoSignal)
    /\ (StartFailed /\ NoSignal /\ HasReturned) ~> (gor.g1 = "exited")

\* Neither an address nor a socket: the error was returned, the channel is
\* closed and the waiting goroutine is gone.
C27_Witness ==
    /\ call.address = "" /\ call.socket = "" /\ NoSignal
    /\ HasReturned /\ result = errNeither
    /\ shutdownServer.closes = 1 /\ gor.g1 = "exited" /\ gor.g2 = "exited"

(***************************************************************************)
(* C30: whatever server is handed to ListenServeAndWaitGracefully, nil     *)
(* included, the shutdown goroutine never dereferences a nil server, and   *)
(* the server it shuts down on a signal sent while serving is the one      *)
(* that serves, the one ListenAndServe assigned to f.Server.               *)
(***************************************************************************)
\* The shutdown goroutine has called Shutdown on the server it holds.
ShutdownCalled == gor.g1 \in {"shutdown", "send"} \/ ~Alive

C30_ShutdownOfTheServingServer ==
    /\ Alive
    /\ (SignalledWhileServing /\ ShutdownCalled) => call.s = f_Server

(***************************************************************************)
(* C21: Fastglue.Shutdown(s, shutdownComplete) shuts down the server       *)
(* passed as s and sends exactly one value on shutdownComplete, nil or     *)
(* the error of the shutdown, and only once that shutdown has completed:   *)
(* when nil was sent, s has no listener and no request in flight.          *)
(***************************************************************************)
C21_ShutsDownThePassedServer ==
    call.s # NoServer =>
        /\ Alive
        /\ Len(shutdownComplete) <= 1
        /\ gor.g1 = "done" => Len(shutdownComplete) = 1
        /\ \A n \in 1..Len(shutdownComplete) :
              /\ shutdownComplete[n] \in {NoError, errClose}
              /\ shutdownComplete[n] = NoError =>
                    ~Listening(servers[call.s]) /\ servers[call.s].open = 0

(***************************************************************************)
(* C22: the mock server answers 404 "not found" for a URI no Handle call   *)
(* registered, 405 "method not allowed" for a URI registered under other   *)
(* methods only, and the response of a Handle call only to a request       *)
(* whose method and URI are those of the call.                             *)
(***************************************************************************)
\* The responses registered for the URI, and for the method and the URI,
\* of the last request.
ForURI == {c \in mock.registered : c[2] = mock.uri}

ForMethodAndURI == {c \in ForURI : c[1] = mock.method}

C22_MockMatchesMethodAndURI ==
    mock.pc = "served" =>
        /\ ForURI = {} => mock.written = notFound
        /\ (ForURI # {} /\ ForMethodAndURI = {}) => mock.written = methodNotAllowed
        /\ \A c \in ForMethodAndURI : mock.written = writeOut(c[3])

(***************************************************************************)
(* C26: ParseAuthHeader returns a key and a token only under a scheme      *)
(* whose flag is set in schemes: a Basic header only with AuthBasic, a     *)
(* token header only with AuthToken, neither flag standing in for the      *)
(* other; in every other case the error is "unknown authorization          *)
(* scheme".  The credential is split at its first ":" only, and a          *)
(* credential without ":" is an error.                                     *)
(***************************************************************************)
\* The flags as the bits of schemes.
FlagSet(flag) == \E k \in 0..255 : \E low \in 0..(flag - 1) :
                    auth.schemes = (2 * k + 1) * flag + low

IsBasicHeader == HasPrefix(auth.header, authBasic)

IsTokenHeader == HasPrefix(auth.header, authToken)

Accepted == (FlagSet(AuthBasic) /\ IsBasicHeader) \/ (FlagSet(AuthToken) /\ IsTokenHeader)

C26_SchemeFlagsGateTheHeader ==
    auth.pc = "done" =>
        /\ auth.out.err = NoError => Accepted
        /\ ~Accepted => auth.out.err = errUnknownScheme
        /\ (Accepted /\ auth.credential # Nil) =>
              LET parts == splitAll(auth.credential)
              IN  /\ Len(parts) = 1 => auth.out.err = errKeyToken
                  /\ Len(parts) > 1 =>
                       /\ auth.out.err = NoError
                       /\ auth.out.key = parts[1]
                       /\ auth.out.key \o ":" \o auth.out.token = auth.credential

\* A Basic header with only AuthToken set is refused as an unknown scheme.
C26_Witness ==
    /\ auth.pc = "done" /\ auth.schemes = AuthToken
    /\ auth.header = "Basic dXNlcjpwYXNz"
    /\ auth.out.err = errUnknownScheme

\* With both flags set the Basic credential a:b:c is decoded and split at
\* its first colon.
C26_WitnessSplit ==
    /\ auth.pc = "done" /\ auth.schemes = AuthBasic + AuthToken
    /\ auth.header = "Basic YTpiOmM="
    /\ auth.out = AuthResult("a", "b:c", NoError)

(***************************************************************************)
(* C25: DecodeFail returns a non-nil error and writes a 400 error envelope *)
(* with error_type InputException whenever decoding fails, be it a         *)
(* malformed JSON body, a malformed XML body or a form value ScanArgs      *)
(* cannot coerce; when decoding succeeds it returns nil and writes nothing *)
(* to the response.                                                        *)
(***************************************************************************)
\* The parser the content type selects.
\* The content types of the requests, by the branch of Decode they take.
ByJSON == dec.ct = "application/json"

ByXML == dec.ct \in {"application/xml", "text/xml; charset=utf-8"}

ByForm == ~ByJSON /\ ~ByXML

\* The members whose value does not fit the field of the struct they
\* name: for JSON, in any casing, a string for a number, a number with a
\* fraction for an int, a string that is no base64 for a []byte; for XML,
\* in the casing of the declaration, text that is no integer for an int.
JSONMisfits ==
    {Member("int1", "string", "abc"), Member("Int1", "number", "1.5"),
     Member("Int1", "string", ""), Member("Int1", "string", "\t30\n"),
     Member("NaN", "string", "Inf"), Member("Bytes", "string", "abc")}

XMLMisfits == {Member("Int1", "number", "1.5")}

\* The body holds one of the members.
Holds(misfits) == \E i \in 1..Len(dec.body.members) : dec.body.members[i] \in misfits

\* The body is well-formed text of the kind.
WellFormed(kind) == dec.body.kind = kind /\ dec.body.wellformed

\* Decoding the request fails.  JSON: the body is no well-formed JSON, or
\* its object is to go into an int, or into a struct a member does not
\* fit.  XML: the body is no well-formed XML, or the target is behind two
\* pointers or a map, or a struct an element does not fit.  Form: the
\* target is no struct, or a submitted value cannot be coerced.
DecodingFails ==
    \/ /\ ByJSON
       /\ \/ ~WellFormed("json")
          \/ target = PtrTo("int")
          \/ target \in {PtrTo("struct"), PtrTo("ptr")} /\ Holds(JSONMisfits)
    \/ /\ ByXML
       /\ \/ ~WellFormed("xml")
          \/ target \in {PtrTo("ptr"), PtrTo("map")}
          \/ target = PtrTo("struct") /\ Holds(XMLMisfits)
    \/ /\ ByForm
       /\ \/ ~IsStructTarget
          \/ /\ target = PtrTo("struct")
             /\ dec.ct = strPostArgsContentType
             /\ FailingFields # {}

\* Exactly one envelope was written: a 400 with status error and
\* error_type InputException.
Wrote400Envelope ==
    /\ dec.resp.code = 400
    /\ dec.resp.ctype = JSON
    /\ Len(dec.resp.body) = 1
    /\ dec.resp.body[1].status = statusError
    /\ dec.resp.body[1].error_type = "InputException"

C25_DecodeFailReportsEveryFailure ==
    dec.pc = "returned" =>
        /\ DecodingFails => (dec.ret # NoError /\ Wrote400Envelope)
        /\ ~DecodingFails => (dec.ret = NoError /\ dec.resp = NewResponse)

\* A form value that is no integer fails the request.
C25_Witness ==
    /\ dec.pc = "returned" /\ ByForm /\ target = PtrTo("struct")
    /\ args = <<<<"int1", "abc">>>>
    /\ dec.ret # NoError /\ Wrote400Envelope

\* A malformed XML body fails the request.
C25_WitnessXML ==
    /\ dec.pc = "returned" /\ ByXML /\ target = PtrTo("struct")
    /\ dec.body = Body("xml", <<Member("Int1", "number", "30")>>, FALSE)
    /\ obj["Int1"] = 30
    /\ dec.ret = <<"error decoding request: ", constXML, ": malformed body">>
    /\ Wrote400Envelope

\* A malformed JSON body fails the request and leaves the target as it was.
C25_WitnessJSON ==
    /\ dec.pc = "returned" /\ ByJSON /\ target = PtrTo("struct")
    /\ dec.body = Body("json", <<Member("int1", "number", "30")>>, FALSE)
    /\ obj = old
    /\ dec.ret # NoError /\ Wrote400Envelope

\* A well-formed JSON body is stored in the target.
C25_WitnessStored ==
    /\ dec.pc = "returned" /\ ByJSON /\ target = PtrTo("struct")
    /\ dec.body = Body("json", <<Member("int1", "number", "30")>>, TRUE)
    /\ old = ZeroObj /\ obj["Int1"] = 30
    /\ dec.ret = NoError /\ dec.resp = NewResponse

\* A JSON body for a struct handed over by value decodes without an error
\* and leaves the struct as it was.
C25_WitnessByValue ==
    /\ dec.pc = "returned" /\ ByJSON /\ target = ValueOf("struct")
    /\ dec.body = Body("json", <<Member("int1", "number", "30")>>, TRUE)
    /\ old = ZeroObj /\ obj = ZeroObj
    /\ dec.ret = NoError /\ dec.resp = NewResponse

\* A JSON object for a pointer to an int fails the request.
C25_WitnessScalar ==
    /\ dec.pc = "returned" /\ ByJSON /\ target = PtrTo("int")
    /\ dec.body = Body("json", <<Member("int1", "number", "30")>>, TRUE)
    /\ obj = old
    /\ dec.ret # NoError /\ Wrote400Envelope

\* An XML body for a pointer to a pointer to a struct fails the request.
C25_WitnessTwoPointers ==
    /\ dec.pc = "returned" /\ ByXML /\ target = PtrTo("ptr")
    /\ dec.body = Body("xml", <<Member("Int1", "number", "30")>>, TRUE)
    /\ obj = old
    /\ dec.ret # NoError /\ Wrote400Envelope

\* A JSON body for a pointer to a map is stored in the map.
C25_WitnessMap ==
    /\ dec.pc = "returned" /\ ByJSON /\ target = PtrTo("map")
    /\ dec.body = Body("json", <<Member("Str1", "string", "abc")>>, TRUE)
    /\ DOMAIN obj = {"Str1"} /\ obj["Str1"] = "abc"
    /\ dec.ret = NoError /\ dec.resp = NewResponse

\* An XML element without text and one with white space around its text
\* are stored in an int.
C25_WitnessXMLText ==
    /\ dec.pc = "returned" /\ ByXML /\ target = PtrTo("struct")
    /\ dec.body = Body("xml", <<Member("Int1", "string", ""),
                                Member("Int1", "string", "\t30\n")>>, TRUE)
    /\ old["Int1"] = 7 /\ obj["Int1"] = 30
    /\ dec.ret = NoError /\ dec.resp = NewResponse

\* A JSON string for the []byte field: the bytes of its base64 text are
\* stored; text that is no base64 fails the request and leaves the field.
C25_WitnessBase64 ==
    /\ dec.pc = "returned" /\ ByJSON /\ target = PtrTo("struct")
    /\ dec.body = Body("json", <<Member("Bytes", "string", "YWJj")>>, TRUE)
    /\ old["Bytes"] = "xyz" /\ obj["Bytes"] = "abc"
    /\ dec.ret = NoError /\ dec.resp = NewResponse

C25_WitnessNoBase64 ==
    /\ dec.pc = "returned" /\ ByJSON /\ target = PtrTo("struct")
    /\ dec.body = Body("json", <<Member("Bytes", "string", "abc")>>, TRUE)
    /\ old["Bytes"] = "xyz" /\ obj["Bytes"] = "xyz"
    /\ dec.ret # NoError /\ Wrote400Envelope

\* The same text in an XML element is stored as it stands.
C25_WitnessXMLBytes ==
    /\ dec.pc = "returned" /\ ByXML /\ target = PtrTo("struct")
    /\ dec.body = Body("xml", <<Member("Bytes", "string", "YWJj")>>, TRUE)
    /\ old["Bytes"] = "xyz" /\ obj["Bytes"] = "YWJj"
    /\ dec.ret = NoError /\ dec.resp = NewResponse

\* Form values that all coerce: nil is returned and nothing is written.
C25_WitnessSuccess ==
    /\ dec.pc = "returned" /\ ByForm /\ target = PtrTo("struct")
    /\ args = <<<<"int1", "123">>>>
    /\ dec.ret = NoError /\ dec.resp = NewResponse


=============================================================================
